---- MODULE Spec2Model ----
(***************************************************************************)
(* Bus2Hike: the trail path finder (backend/app/find_trails.py) and the    *)
(* trail network builder (backend/scripts/build-trail-network.py).         *)
(*                                                                         *)
(* Units.  Every distance is an integer number of metres, that is of       *)
(* 0.001 km: a length_km of 0.02 is 20, a max_distance of 0.006 km is 6.   *)
(* trail_edges.length_km is DECIMAL(10, 2), so a stored edge length is a   *)
(* multiple of 10.  Node positions are metres east and north of an origin  *)
(* at latitude 45 degrees, where cos^2(latitude) = 1/2: a difference in    *)
(* longitude degrees is the east offset scaled by 1/cos(latitude).         *)
(***************************************************************************)
EXTENDS Integers, Sequences, FiniteSets, Bags, TLC

VARIABLES
    trail_nodes,   \* the Node table: set of rows [id, x, y]
    trail_edges,   \* the Edge table: set of rows [id, source_node_id, target_node_id, length_km]
    pc,            \* position of the running operation
    req,           \* arguments of the running operation
    connection,    \* finder.connection: "none", "open" or "closed"
    start_nodes,   \* find_trails: list returned by find_start_nodes
    node_idx,      \* find_trails: index of the start node being searched
    all_paths,     \* find_trails: accumulated path records
    response,      \* value returned by the operation, or NoValue
    exit_code,     \* status passed to sys.exit, or NoValue
    cte_work,      \* find_paths_from_node: working table of the recursive CTE (a bag)
    cte_all,       \* find_paths_from_node: accumulated CTE result (a bag)
    rows,          \* find_paths_from_node: rows fetched so far, in order
    error_log,     \* where the exception logged by logger.error was raised, or NoValue
    hiking_trails, \* the raw trails table read by the network builder
    committed,     \* the Node and Edge tables as committed in the database
    tables_at_start, \* the committed tables when the running build started
    builds,        \* number of build_network runs started
    build_log,     \* node and edge counts logged by the builds, in order
    elevation_cache,    \* ElevationService.elevation_cache: dict from coordinate tuples to lists
    is_latitude_first,  \* ElevationService._is_latitude_first
    call_log,      \* the calls of get_elevation_for_coordinates made so far, in order
    selected_targets \* find_paths_from_node_optimized: the targets picked from the bins

vars == <<trail_nodes, trail_edges, pc, req, connection, start_nodes, node_idx,
          all_paths, response, exit_code, cte_work, cte_all, rows, error_log,
          hiking_trails, committed, tables_at_start, builds, build_log,
          elevation_cache, is_latitude_first, call_log, selected_targets>>

\* What only the network builder touches, and what only the path finder does.
builder_vars == <<hiking_trails, committed, tables_at_start, builds, build_log>>
finder_vars == <<req, start_nodes, node_idx, all_paths, response, exit_code,
                 cte_work, cte_all, rows, selected_targets>>

\* What only the elevation service touches.
elevation_vars == <<elevation_cache, is_latitude_first, call_log>>

NoValue == "none"
NoResponse == [type |-> "none"]
\* max_distance_cut = None
NoCut == -1

\* ------------------------------------------------------------------ bounds
NumNodes == 3
MaxEdges == 3
MaxPathsBound == 2

\* ------------------------------------------------------------- small helpers
Range(s) == {s[i] : i \in DOMAIN s}

Max2(a, b) == IF a >= b THEN a ELSE b

Min2(a, b) == IF a <= b THEN a ELSE b

RECURSIVE SumSeq(_)
SumSeq(s) == IF s = <<>> THEN 0 ELSE s[1] + SumSeq(Tail(s))

RECURSIVE Perms(_)
Perms(S) ==
    IF S = {} THEN {<<>>}
    ELSE UNION {{<<x>> \o p : p \in Perms(S \ {x})} : x \in S}

\* --------------------------------------------------- the graphs considered
\* Node n sits on a 4 m x 12 m lattice.
PosX(n) == 4 * ((n - 1) % 2)
PosY(n) == 12 * ((n - 1) \div 2)

NodeRows == {[id |-> n, x |-> PosX(n), y |-> PosY(n)] : n \in 1..NumNodes}

Dist2(ax, ay, bx, by) == (ax - bx) * (ax - bx) + (ay - by) * (ay - by)

EdgeLens == {0, 10, 20}

\* Edge i joins consecutive nodes of a ring; odd ids are stored in ring
\* order, even ids against it (direction is a storage convention only).
SlotA(i) == ((i - 1) % NumNodes) + 1
SlotB(i) == (i % NumNodes) + 1

EdgeRow(i, len) ==
    [id |-> i,
     source_node_id |-> IF i % 2 = 1 THEN SlotA(i) ELSE SlotB(i),
     target_node_id |-> IF i % 2 = 1 THEN SlotB(i) ELSE SlotA(i),
     length_km |-> len]

\* A stored length is the geodesic length of a line between the two nodes,
\* rounded to 0.01 km: it is at least their distance, less the rounding.
EdgeLenOk(i, len) ==
    (len + 5) * (len + 5) >= Dist2(PosX(SlotA(i)), PosY(SlotA(i)),
                                   PosX(SlotB(i)), PosY(SlotB(i)))

EdgeOptions(i) == {{}} \cup {{EdgeRow(i, len)} : len \in {l \in EdgeLens : EdgeLenOk(i, l)}}

Graphs ==
    LET AllOptions == UNION {EdgeOptions(i) : i \in 1..MaxEdges}
        Picks == {f \in [1..MaxEdges -> AllOptions] : \A i \in 1..MaxEdges : f[i] \in EdgeOptions(i)}
    IN  {UNION {f[i] : i \in 1..MaxEdges} : f \in Picks}

\* Arguments tried: max_distance (some below every edge length, some not
\* multiples of 0.01 km), the locator's query point and radius.
MaxDistances == {3, 6, 15, 30}
QueryPoints == {<<0, 0>>, <<2, 6>>}
Diameters == {3, 5, 12}

\* ====================================================================== *
\* TrailFinder.find_paths_from_node: the recursive CTE                     *
\* ====================================================================== *

\* The node reached over edge te from node n (the CASE of lines 131-138).
FarNode(te, n) == IF te.source_node_id = n THEN te.target_node_id ELSE te.source_node_id

\* Base case of the CTE: one row per node row with the start id.
CteBase(start_node_id) ==
    {[path_edges |-> <<>>, path_directions |-> <<>>, node_sequence |-> <<n.id>>,
      last_node |-> n.id, total_cost |-> 0, visited_edges |-> <<>>]
        : n \in {m \in trail_nodes : m.id = start_node_id}}

\* JOIN ... ON of the recursive step.
CteJoin(tp, te) == te.source_node_id = tp.last_node \/ te.target_node_id = tp.last_node

\* Variant: revisiting a node is not excluded.
CteWhereNoNodeCheck(tp, te, max_distance) ==
    /\ te.id \notin Range(tp.visited_edges)
    /\ tp.total_cost + te.length_km <= max_distance

\* Variant: the distance budget is not checked.
CteWhereNoBudget(tp, te, max_distance) ==
    /\ te.id \notin Range(tp.visited_edges)
    /\ FarNode(te, tp.last_node) \notin Range(tp.node_sequence)

\* Variant: only the distance budget limits an expansion.
CteWhereBudgetOnly(tp, te, max_distance) ==
    tp.total_cost + te.length_km <= max_distance

\* WHERE of the recursive step.
CteWhere(tp, te, max_distance) ==
    /\ te.id \notin Range(tp.visited_edges)
    /\ tp.total_cost + te.length_km <= max_distance
    /\ FarNode(te, tp.last_node) \notin Range(tp.node_sequence)

\* Variant: the direction flag compares the edge's target with the last node.
CteExpandTargetFlag(tp, te) ==
    [path_edges |-> Append(tp.path_edges, te.id),
     path_directions |-> Append(tp.path_directions, te.target_node_id = tp.last_node),
     node_sequence |-> Append(tp.node_sequence, FarNode(te, tp.last_node)),
     last_node |-> FarNode(te, tp.last_node),
     total_cost |-> tp.total_cost + te.length_km,
     visited_edges |-> Append(tp.visited_edges, te.id)]

\* SELECT list of the recursive step.
CteExpand(tp, te) ==
    [path_edges |-> Append(tp.path_edges, te.id),
     path_directions |-> Append(tp.path_directions, te.source_node_id = tp.last_node),
     node_sequence |-> Append(tp.node_sequence, FarNode(te, tp.last_node)),
     last_node |-> FarNode(te, tp.last_node),
     total_cost |-> tp.total_cost + te.length_km,
     visited_edges |-> Append(tp.visited_edges, te.id)]

RECURSIVE SumOver(_, _)
SumOver(S, f) == IF S = {} THEN 0 ELSE LET x == CHOOSE y \in S : TRUE IN f[x] + SumOver(S \ {x}, f)

\* One evaluation of the recursive term over the working table (UNION ALL:
\* a row is produced once for every joined pair that yields it).
CteStep(work, max_distance) ==
    LET pairs == {pr \in BagToSet(work) \X trail_edges :
                    CteJoin(pr[1], pr[2]) /\ CteWhere(pr[1], pr[2], max_distance)}
        out == {CteExpand(pr[1], pr[2]) : pr \in pairs}
        from(r) == {pr \in pairs : CteExpand(pr[1], pr[2]) = r}
    IN  [r \in out |-> SumOver(from(r), [pr \in from(r) |-> work[pr[1]]])]

\* Variant: the final SELECT keeps every row of trail_paths.
CteSelectAll(all) == all

\* Variant: the final SELECT keeps only the rows no other row extends.
CteSelectMaximalOnly(all) ==
    LET keep == {r \in BagToSet(all) :
                    /\ Len(r.path_edges) > 0
                    /\ ~\E o \in BagToSet(all) :
                          /\ Len(o.path_edges) > Len(r.path_edges)
                          /\ SubSeq(o.path_edges, 1, Len(r.path_edges)) = r.path_edges}
    IN  [r \in keep |-> all[r]]

\* Final SELECT: array_length(path_edges, 1) > 0 (NULL for the empty array).
CteSelect(all) == LET keep == {r \in BagToSet(all) : Len(r.path_edges) > 0}
                  IN  [r \in keep |-> all[r]]

\* Variant: ORDER BY total_cost ASC.
RECURSIVE OrderByCostAsc(_, _)
OrderByCostAsc(bag, limit) ==
    IF BagToSet(bag) = {} \/ limit = 0 THEN {<<>>}
    ELSE LET low == {r \in BagToSet(bag) :
                        \A o \in BagToSet(bag) : r.total_cost <= o.total_cost}
         IN  UNION {{<<r>> \o t : t \in OrderByCostAsc(bag (-) SetToBag({r}), limit - 1)}
                        : r \in low}

\* ORDER BY total_cost DESC with the LIMIT clause (none when limit = 0):
\* every order of the rows the sort allows, rows of equal cost in any order.
RECURSIVE OrderByCostDesc(_, _)
OrderByCostDesc(bag, limit) ==
    IF BagToSet(bag) = {} \/ limit = 0 THEN {<<>>}
    ELSE LET top == {r \in BagToSet(bag) :
                        \A o \in BagToSet(bag) : o.total_cost <= r.total_cost}
         IN  UNION {{<<r>> \o t : t \in OrderByCostDesc(bag (-) SetToBag({r}), limit - 1)}
                        : r \in top}

\* limit_clause = f"LIMIT {max_paths}" if max_paths else "": the number of
\* rows the query may return, the row count when there is no clause.
RowLimit(selected, max_paths) == IF max_paths # 0 THEN max_paths ELSE BagCardinality(selected)

PathRecord(r) ==
    [path_edges |-> r.path_edges, path_directions |-> r.path_directions,
     node_sequence |-> r.node_sequence, total_cost |-> r.total_cost]

\* ====================================================================== *
\* TrailFinder.find_paths_from_node_optimized                              *
\* ====================================================================== *

\* ST_DWithin on geography: geodesic distance at most the radius (closed).
DWithin(ax, ay, bx, by, radius) == Dist2(ax, ay, bx, by) <= radius * radius

\* Variant: every other node is a candidate, whatever its distance.
CandidateNodesNoRadius(start, max_distance) ==
    {n \in trail_nodes : n.id # start.id}

\* Step 2: the other nodes within max_distance of the start node.
CandidateNodes(start, max_distance) ==
    {n \in trail_nodes : n.id # start.id /\ DWithin(n.x, n.y, start.x, start.y, max_distance)}

\* atan of num/den (0 <= num <= den, den > 0) in hundredths of a degree,
\* exact to the hundredth for the offsets of the lattice (ratios 0, 1/6, 1/3, 1).
AtanCentiDeg(num, den) ==
    CASE num = 0 -> 0
      [] num = den -> 4500
      [] 3 * num = den -> 1843
      [] 6 * num = den -> 946
      [] OTHER -> (4500 * num) \div den

\* calculate_bearing: atan2(east, north) in [0, 360), in hundredths of a
\* degree (for offsets of a few metres the spherical formula is the planar one).
Bearing(east, north) ==
    LET ae == IF east < 0 THEN -east ELSE east
        an == IF north < 0 THEN -north ELSE north
        \* angle from the north axis within the quadrant, 0..9000
        q == IF ae <= an THEN AtanCentiDeg(ae, an) ELSE 9000 - AtanCentiDeg(an, ae)
        b == CASE east >= 0 /\ north >= 0 -> q
               [] east >= 0 /\ north < 0 -> 18000 - q
               [] east < 0 /\ north < 0 -> 18000 + q
               [] OTHER -> 36000 - q
    IN  (b + 36000) % 36000

NumBins(max_paths) == Max2(8, max_paths)

\* bin_index = int(bearing / (360 / num_bins))
BinIndex(start, n, num_bins) == (Bearing(n.x - start.x, n.y - start.y) * num_bins) \div 36000

\* The key of max(): squared distance in coordinate degrees; at latitude 45
\* a metre east is sqrt(2) times the longitude degrees of a metre north.
CoordDist2(start, n) == (n.y - start.y) * (n.y - start.y) + 2 * (n.x - start.x) * (n.x - start.x)

BinNodes(start, cands, num_bins, b) == {n \in cands : BinIndex(start, n, num_bins) = b}

\* Variant: any node of the bin is taken, whatever its distance.
FirstOfBin(start, bin_nodes) == bin_nodes

\* max() keeps the first maximal element of the bin, in the unspecified
\* order the candidate rows were fetched: any maximal element.
Farthest(start, bin_nodes) ==
    {n \in bin_nodes : \A m \in bin_nodes : CoordDist2(start, m) <= CoordDist2(start, n)}

\* selected_targets: one target per non-empty bin, in bin order (all outcomes).
RECURSIVE SelectTargets(_, _, _, _)
SelectTargets(start, cands, num_bins, b) ==
    IF b >= num_bins THEN {<<>>}
    ELSE LET rest == SelectTargets(start, cands, num_bins, b + 1)
             here == BinNodes(start, cands, num_bins, b)
         IN  IF here = {} THEN rest
             ELSE {<<n>> \o r : n \in Farthest(start, here), r \in rest}

\* Simple paths over trail_edges from a node, traversable both ways.
RECURSIVE SimplePaths(_)
SimplePaths(frontier) ==
    IF frontier = {} THEN {}
    ELSE LET next == {CteExpand(pr[1], pr[2]) :
                        pr \in {q \in frontier \X trail_edges :
                                  /\ CteJoin(q[1], q[2])
                                  /\ FarNode(q[2], q[1].last_node) \notin Range(q[1].node_sequence)}}
         IN  frontier \cup SimplePaths(next)

\* Variant: directed := true, an edge is followed from its source only.
RECURSIVE SimplePathsDirected(_)
SimplePathsDirected(frontier) ==
    IF frontier = {} THEN {}
    ELSE LET next == {CteExpand(pr[1], pr[2]) :
                        pr \in {q \in frontier \X trail_edges :
                                  /\ q[2].source_node_id = q[1].last_node
                                  /\ q[2].target_node_id \notin Range(q[1].node_sequence)}}
         IN  frontier \cup SimplePathsDirected(next)

PgrDijkstraDirected(start_id, end_id) ==
    LET all == {p \in SimplePathsDirected(CteBase(start_id)) : p.last_node = end_id}
        best == {p \in all : \A o \in all : p.total_cost <= o.total_cost}
        cost(e) == (CHOOSE te \in trail_edges : te.id = e).length_km
        row(p, i) ==
            [node |-> p.node_sequence[i],
             edge |-> IF i <= Len(p.path_edges) THEN p.path_edges[i] ELSE -1,
             agg_cost |-> SumSeq([k \in 1..(i - 1) |-> cost(p.path_edges[k])])]
    IN  {[i \in 1..Len(p.node_sequence) |-> row(p, i)] : p \in best}

\* pgr_dijkstra(start, end, directed := false): the rows of a cheapest path,
\* one per node, the last with edge -1; no row when end is unreachable.
PgrDijkstra(start_id, end_id) ==
    LET all == {p \in SimplePaths(CteBase(start_id)) : p.last_node = end_id}
        best == {p \in all : \A o \in all : p.total_cost <= o.total_cost}
        cost(e) == (CHOOSE te \in trail_edges : te.id = e).length_km
        row(p, i) ==
            [node |-> p.node_sequence[i],
             edge |-> IF i <= Len(p.path_edges) THEN p.path_edges[i] ELSE -1,
             agg_cost |-> SumSeq([k \in 1..(i - 1) |-> cost(p.path_edges[k])])]
    IN  {[i \in 1..Len(p.node_sequence) |-> row(p, i)] : p \in best}

\* The empty dict {} (falsy); any other dict is truthy.
EmptyDict == [empty |-> TRUE]
Truthy(d) == d # EmptyDict

\* _format_path
FormatPath(pgr_path) ==
    IF pgr_path = <<>> THEN EmptyDict
    ELSE LET node_sequence == [i \in 1..Len(pgr_path) |-> pgr_path[i].node]
             path_edges == SelectSeq([i \in 1..Len(pgr_path) |-> pgr_path[i].edge],
                                     LAMBDA e : e # -1)
             edge_source(e) == (CHOOSE te \in trail_edges : te.id = e).source_node_id
         IN  IF path_edges = <<>>
             THEN [path_edges |-> <<>>, path_directions |-> <<>>,
                   node_sequence |-> node_sequence, total_cost |-> 0]
             ELSE [path_edges |-> path_edges,
                   path_directions |->
                       [i \in 1..(Len(node_sequence) - 1) |->
                           /\ \E te \in trail_edges : te.id = path_edges[i]
                           /\ edge_source(path_edges[i]) = node_sequence[i]],
                   node_sequence |-> node_sequence,
                   total_cost |-> pgr_path[Len(pgr_path)].agg_cost]

\* The loop over selected_targets (lines 236-260): every list it can return.
RECURSIVE TargetLoop(_, _, _, _, _)
TargetLoop(start_id, targets, i, acc, max_paths) ==
    IF i > Len(targets) THEN {acc}
    ELSE LET found == PgrDijkstra(start_id, targets[i].id)
             after(a) == IF Len(a) >= max_paths THEN {a}
                         ELSE TargetLoop(start_id, targets, i + 1, a, max_paths)
         IN  IF found = {} THEN after(acc)
             ELSE UNION {after(IF Truthy(FormatPath(path))
                               THEN Append(acc, FormatPath(path)) ELSE acc) : path \in found}

\* find_paths_from_node_optimized: the set of lists the call can return.
FindPathsFromNodeOptimized(start_node_id, max_distance, max_paths) ==
    LET geom == {n \in trail_nodes : n.id = start_node_id}
    IN  IF geom = {} THEN {<<>>}
        ELSE LET start == CHOOSE n \in geom : TRUE
                 cands == CandidateNodes(start, max_distance)
             IN  IF cands = {} THEN {<<>>}
                 ELSE UNION {TargetLoop(start_node_id, targets, 1, <<>>, max_paths) :
                                targets \in SelectTargets(start, cands, NumBins(max_paths), 0)}

\* ====================================================================== *
\* Geometry assembly, truncation and the FeatureCollection                 *
\* ====================================================================== *

EdgeLength(e) == (CHOOSE te \in trail_edges : te.id = e).length_km

\* Number of coordinates of the line ST_LineMerge builds from the path's
\* edges (each edge a line between its two nodes), cut at max_dist when the
\* path is longer: the vertices before the cut and the cut point itself.
\* NULL geometry (no edge row joined) gives no coordinates.
CoordCount(path, max_dist) ==
    LET n == Len(path.path_edges)
        cum(k) == SumSeq([j \in 1..k |-> EdgeLength(path.path_edges[j])])
    IN  IF \E i \in 1..n : \A te \in trail_edges : te.id # path.path_edges[i] THEN 0
        ELSE IF path.total_cost > max_dist
             THEN Cardinality({k \in 0..n : cum(k) < max_dist}) + 1
             ELSE n + 1

\* Variant: the full length is reported for a truncated geometry.
TruncatePathGeometryFullLength(path, max_dist) ==
    IF path.path_edges = <<>> THEN <<0, 0>>
    ELSE IF CoordCount(path, max_dist) = 0 THEN <<0, 0>>
         ELSE <<CoordCount(path, max_dist), path.total_cost>>

\* _truncate_path_geometry: <<number of coordinates, final_length>>
TruncatePathGeometry(path, max_dist) ==
    IF path.path_edges = <<>> THEN <<0, 0>>
    ELSE LET total_length == path.total_cost
             final_length == IF total_length > max_dist THEN max_dist ELSE total_length
             ncoords == CoordCount(path, max_dist)
         IN  IF ncoords = 0 THEN <<0, 0>> ELSE <<ncoords, final_length>>

\* round(final_dist, 2) on the Decimal the query returns: to the nearest
\* 0.01 km, a tie going to the even hundredth.
Round2(x) ==
    LET q == x \div 10
        r == x % 10
    IN  IF r < 5 THEN 10 * q
        ELSE IF r > 5 THEN 10 * (q + 1)
        ELSE IF q % 2 = 0 THEN 10 * q ELSE 10 * (q + 1)

\* Variant: features are numbered by their position in the feature list.
RECURSIVE BuildFeaturesFrom(_, _, _, _)
BuildFeaturesFrom(paths, i, max_distance_cut, k) ==
    IF i > Len(paths) THEN <<>>
    ELSE LET path == paths[i]
             t == IF max_distance_cut # NoCut /\ path.total_cost > max_distance_cut
                  THEN TruncatePathGeometry(path, max_distance_cut)
                  ELSE TruncatePathGeometry(path, path.total_cost + 1000)
         IN  IF path.path_edges = <<>> \/ t[1] < 2
             THEN BuildFeaturesFrom(paths, i + 1, max_distance_cut, k)
             ELSE <<[path_id |-> k,
                     total_distance_km |-> Round2(t[2]),
                     edge_ids |-> path.path_edges,
                     node_sequence |-> path.node_sequence,
                     ncoords |-> t[1]]>> \o BuildFeaturesFrom(paths, i + 1, max_distance_cut, k + 1)

BuildFeaturesPositional(paths, i, max_distance_cut) ==
    BuildFeaturesFrom(paths, i, max_distance_cut, i - 1)

\* Features appended by the loop of build_geojson_from_paths over paths[i..].
RECURSIVE BuildFeatures(_, _, _)
BuildFeatures(paths, i, max_distance_cut) ==
    IF i > Len(paths) THEN <<>>
    ELSE LET path == paths[i]
             rest == BuildFeatures(paths, i + 1, max_distance_cut)
         IN  IF path.path_edges = <<>> THEN rest
             ELSE LET total_path_distance == path.total_cost
                      needs_truncation == max_distance_cut # NoCut
                                          /\ total_path_distance > max_distance_cut
                      t == IF needs_truncation
                           THEN TruncatePathGeometry(path, max_distance_cut)
                           ELSE TruncatePathGeometry(path, total_path_distance + 1000)
                  IN  IF t[1] < 2 THEN rest
                      ELSE <<[path_id |-> i - 1,
                              total_distance_km |-> Round2(t[2]),
                              edge_ids |-> path.path_edges,
                              node_sequence |-> path.node_sequence,
                              ncoords |-> t[1]]>> \o rest

\* build_geojson_from_paths
BuildGeojsonFromPaths(paths, max_distance_cut) ==
    IF paths = <<>> THEN [type |-> "FeatureCollection", features |-> <<>>]
    ELSE [type |-> "FeatureCollection", features |-> BuildFeatures(paths, 1, max_distance_cut)]

\* ====================================================================== *
\* find_trails                                                             *
\* ====================================================================== *

\* find_start_nodes: the ids of the nodes within the radius of the point.
FindStartNodes(lon, lat, diameter) ==
    {n.id : n \in {m \in trail_nodes : DWithin(m.x, m.y, lon, lat, diameter)}}

EmptyCollection == [type |-> "FeatureCollection", features |-> <<>>]

\* The state a request starts from.
Idle ==
    /\ pc = "idle"
    /\ req = [op |-> "none"]
    /\ connection = "none"
    /\ start_nodes = <<>>
    /\ node_idx = 0
    /\ all_paths = <<>>
    /\ response = NoResponse
    /\ exit_code = NoValue
    /\ cte_work = EmptyBag
    /\ cte_all = EmptyBag
    /\ rows = <<>>
    /\ error_log = NoValue
    /\ elevation_cache = <<>>
    /\ is_latitude_first = TRUE
    /\ call_log = <<>>
    /\ selected_targets = <<>>

\* A network was built and committed; the finder runs against it.
Init ==
    /\ trail_nodes = NodeRows
    /\ trail_edges \in Graphs
    /\ Idle
    /\ hiking_trails = {}
    /\ committed = [nodes |-> trail_nodes, edges |-> trail_edges]
    /\ tables_at_start = committed
    /\ builds = 0
    /\ build_log = <<>>

\* find_trails(latitude, longitude, diameter, max_distance, max_paths) is
\* called with DATABASE_URL set: finder = TrailFinder(db_url), all_paths = [].
FT_Call ==
    /\ pc = "idle"
    /\ \E q \in QueryPoints, d \in Diameters, md \in MaxDistances, mp \in 1..MaxPathsBound :
          req' = [op |-> "find_trails", longitude |-> q[1], latitude |-> q[2],
                  diameter |-> d, max_distance |-> md, max_paths |-> mp]
    /\ pc' = "ft_connect"
    /\ UNCHANGED builder_vars
    /\ UNCHANGED elevation_vars
    /\ UNCHANGED selected_targets
    /\ UNCHANGED <<trail_nodes, trail_edges, connection, start_nodes, node_idx,
                   all_paths, response, exit_code, cte_work, cte_all, rows, error_log>>

\* DATABASE_URL is not set: sys.exit(1) before anything is connected.
FT_NoDatabaseUrl ==
    /\ pc = "idle"
    /\ req' = [op |-> "find_trails"]
    /\ pc' = "exited"
    /\ exit_code' = "1"
    /\ error_log' = "no_database_url"
    /\ UNCHANGED builder_vars
    /\ UNCHANGED elevation_vars
    /\ UNCHANGED selected_targets
    /\ UNCHANGED <<trail_nodes, trail_edges, connection, start_nodes, node_idx,
                   all_paths, response, cte_work, cte_all, rows>>

\* finder.connect() succeeds.
FT_Connect ==
    /\ pc = "ft_connect"
    /\ connection' = "open"
    /\ pc' = "ft_locate"
    /\ UNCHANGED builder_vars
    /\ UNCHANGED elevation_vars
    /\ UNCHANGED selected_targets
    /\ UNCHANGED <<trail_nodes, trail_edges, req, start_nodes, node_idx,
                   all_paths, response, exit_code, cte_work, cte_all, rows, error_log>>

\* finder.connect() raises: except logs and calls sys.exit(1); finally
\* finds finder.connection still None.
FT_ConnectFails ==
    /\ pc = "ft_connect"
    /\ exit_code' = "1"
    /\ error_log' = "ft_connect"
    /\ pc' = "ft_finally"
    /\ UNCHANGED builder_vars
    /\ UNCHANGED elevation_vars
    /\ UNCHANGED selected_targets
    /\ UNCHANGED <<trail_nodes, trail_edges, req, connection, start_nodes, node_idx,
                   all_paths, response, cte_work, cte_all, rows>>

\* Variant: an empty list of start nodes is treated as a failure.
FT_LocateEmptyIsError ==
    /\ pc = "ft_locate"
    /\ \E order \in Perms(FindStartNodes(req.longitude, req.latitude, req.diameter)) :
          /\ start_nodes' = order
          /\ IF order = <<>>
             THEN /\ exit_code' = "1"
                  /\ pc' = "ft_finally"
                  /\ node_idx' = node_idx
             ELSE /\ exit_code' = exit_code
                  /\ pc' = "ft_search"
                  /\ node_idx' = 1
    /\ UNCHANGED builder_vars
    /\ UNCHANGED elevation_vars
    /\ UNCHANGED selected_targets
    /\ UNCHANGED <<trail_nodes, trail_edges, req, connection, all_paths,
                   response, cte_work, cte_all, rows, error_log>>

\* start_nodes = finder.find_start_nodes(...), rows in no specified order;
\* an empty list returns the empty FeatureCollection.
FT_Locate ==
    /\ pc = "ft_locate"
    /\ \E order \in Perms(FindStartNodes(req.longitude, req.latitude, req.diameter)) :
          /\ start_nodes' = order
          /\ IF order = <<>>
             THEN /\ response' = EmptyCollection
                  /\ pc' = "ft_finally"
                  /\ node_idx' = node_idx
             ELSE /\ response' = response
                  /\ pc' = "ft_search"
                  /\ node_idx' = 1
    /\ UNCHANGED builder_vars
    /\ UNCHANGED elevation_vars
    /\ UNCHANGED selected_targets
    /\ UNCHANGED <<trail_nodes, trail_edges, req, connection, all_paths,
                   exit_code, cte_work, cte_all, rows, error_log>>

\* Variant: every start node is searched with the whole of max_paths.
MaxPathsPerNodeWhole == req.max_paths

MaxPathsPerNode == Max2(1, req.max_paths \div Len(start_nodes))

\* Variant: the loop never stops early and never truncates.
FT_SearchNoStop ==
    /\ pc = "ft_search"
    /\ \E paths \in FindPathsFromNodeOptimized(start_nodes[node_idx], req.max_distance,
                                                MaxPathsPerNode) :
          /\ all_paths' = all_paths \o paths
          /\ IF node_idx = Len(start_nodes)
             THEN pc' = "ft_build" /\ node_idx' = node_idx
             ELSE pc' = "ft_search" /\ node_idx' = node_idx + 1
    /\ UNCHANGED builder_vars
    /\ UNCHANGED elevation_vars
    /\ UNCHANGED selected_targets
    /\ UNCHANGED <<trail_nodes, trail_edges, req, connection, start_nodes,
                   response, exit_code, cte_work, cte_all, rows, error_log>>

\* Variant: the loop stops at the first start node that yields no path.
FT_SearchStopOnEmpty ==
    /\ pc = "ft_search"
    /\ \E paths \in FindPathsFromNodeOptimized(start_nodes[node_idx], req.max_distance,
                                                MaxPathsPerNode) :
          LET extended == all_paths \o paths
          IN  IF Len(extended) >= req.max_paths \/ paths = <<>>
              THEN /\ all_paths' = SubSeq(extended, 1, Min2(Len(extended), req.max_paths))
                   /\ pc' = "ft_build"
                   /\ node_idx' = node_idx
              ELSE /\ all_paths' = extended
                   /\ IF node_idx = Len(start_nodes)
                      THEN pc' = "ft_build" /\ node_idx' = node_idx
                      ELSE pc' = "ft_search" /\ node_idx' = node_idx + 1
    /\ UNCHANGED builder_vars
    /\ UNCHANGED elevation_vars
    /\ UNCHANGED selected_targets
    /\ UNCHANGED <<trail_nodes, trail_edges, req, connection, start_nodes,
                   response, exit_code, cte_work, cte_all, rows, error_log>>

\* One iteration of the loop over start_nodes (lines 434-443).
FT_Search ==
    /\ pc = "ft_search"
    /\ \E paths \in FindPathsFromNodeOptimized(start_nodes[node_idx], req.max_distance,
                                                MaxPathsPerNode) :
          LET extended == all_paths \o paths
          IN  IF Len(extended) >= req.max_paths
              THEN /\ all_paths' = SubSeq(extended, 1, req.max_paths)
                   /\ pc' = "ft_build"
                   /\ node_idx' = node_idx
              ELSE /\ all_paths' = extended
                   /\ IF node_idx = Len(start_nodes)
                      THEN pc' = "ft_build" /\ node_idx' = node_idx
                      ELSE pc' = "ft_search" /\ node_idx' = node_idx + 1
    /\ UNCHANGED builder_vars
    /\ UNCHANGED elevation_vars
    /\ UNCHANGED selected_targets
    /\ UNCHANGED <<trail_nodes, trail_edges, req, connection, start_nodes,
                   response, exit_code, cte_work, cte_all, rows, error_log>>

\* Variant: building the response deletes the edges no returned path uses.
FT_BuildPrunesEdges ==
    /\ pc = "ft_build"
    /\ response' = BuildGeojsonFromPaths(all_paths, req.max_distance)
    /\ trail_edges' = {te \in trail_edges :
                          \E i \in DOMAIN all_paths : te.id \in Range(all_paths[i].path_edges)}
    /\ pc' = "ft_finally"
    /\ UNCHANGED builder_vars
    /\ UNCHANGED elevation_vars
    /\ UNCHANGED selected_targets
    /\ UNCHANGED <<trail_nodes, req, connection, start_nodes, node_idx,
                   all_paths, exit_code, cte_work, cte_all, rows, error_log>>

\* geojson_result = finder.build_geojson_from_paths(all_paths, max_distance)
FT_Build ==
    /\ pc = "ft_build"
    /\ response' = BuildGeojsonFromPaths(all_paths, req.max_distance)
    /\ pc' = "ft_finally"
    /\ UNCHANGED builder_vars
    /\ UNCHANGED elevation_vars
    /\ UNCHANGED selected_targets
    /\ UNCHANGED <<trail_nodes, trail_edges, req, connection, start_nodes, node_idx,
                   all_paths, exit_code, cte_work, cte_all, rows, error_log>>

\* Variant: a fault in one start node's search is logged and the loop goes on.
FT_StorageFaultIsolated ==
    /\ pc \in {"ft_locate", "ft_search", "ft_build"}
    /\ error_log' = pc
    /\ IF pc = "ft_search"
       THEN /\ exit_code' = exit_code
            /\ IF node_idx = Len(start_nodes)
               THEN pc' = "ft_build" /\ node_idx' = node_idx
               ELSE pc' = "ft_search" /\ node_idx' = node_idx + 1
       ELSE /\ exit_code' = "1"
            /\ pc' = "ft_finally"
            /\ node_idx' = node_idx
    /\ UNCHANGED builder_vars
    /\ UNCHANGED elevation_vars
    /\ UNCHANGED selected_targets
    /\ UNCHANGED <<trail_nodes, trail_edges, req, connection, start_nodes,
                   all_paths, response, cte_work, cte_all, rows>>

\* A storage operation raises (find_start_nodes, a search, the geometry
\* query): except Exception logs the error and calls sys.exit(1).
FT_StorageFault ==
    /\ pc \in {"ft_locate", "ft_search", "ft_build"}
    /\ exit_code' = "1"
    /\ error_log' = pc
    /\ pc' = "ft_finally"
    /\ UNCHANGED builder_vars
    /\ UNCHANGED elevation_vars
    /\ UNCHANGED selected_targets
    /\ UNCHANGED <<trail_nodes, trail_edges, req, connection, start_nodes, node_idx,
                   all_paths, response, cte_work, cte_all, rows>>

\* finally: disconnect when a connection was made; then the value is
\* returned or the process exits.
FT_Finally ==
    /\ pc = "ft_finally"
    /\ connection' = IF connection # "none" THEN "closed" ELSE connection
    /\ pc' = IF exit_code = NoValue THEN "returned" ELSE "exited"
    /\ UNCHANGED builder_vars
    /\ UNCHANGED elevation_vars
    /\ UNCHANGED selected_targets
    /\ UNCHANGED <<trail_nodes, trail_edges, req, start_nodes, node_idx,
                   all_paths, response, exit_code, cte_work, cte_all, rows, error_log>>

\* ====================================================================== *
\* find_paths_from_node, run on a connected finder                         *
\* ====================================================================== *

\* The call: cursor.execute starts the CTE with its base case.  start may
\* be an id no node has; max_paths = 0 stands for None (no LIMIT).
FP_Call ==
    /\ pc = "idle"
    /\ \E s \in 1..(NumNodes + 1), md \in MaxDistances, mp \in 0..MaxPathsBound :
          /\ req' = [op |-> "find_paths_from_node", start_node_id |-> s,
                     max_distance |-> md, max_paths |-> mp]
          /\ cte_work' = SetToBag(CteBase(s))
          /\ cte_all' = SetToBag(CteBase(s))
    /\ connection' = "open"
    /\ pc' = "fp_cte"
    /\ UNCHANGED builder_vars
    /\ UNCHANGED elevation_vars
    /\ UNCHANGED selected_targets
    /\ UNCHANGED <<trail_nodes, trail_edges, start_nodes, node_idx, all_paths,
                   response, exit_code, rows, error_log>>

\* One iteration of the recursive term, while the working table has rows.
FP_Iterate ==
    /\ pc = "fp_cte"
    /\ BagToSet(cte_work) # {}
    /\ cte_work' = CteStep(cte_work, req.max_distance)
    /\ cte_all' = cte_all (+) CteStep(cte_work, req.max_distance)
    /\ UNCHANGED builder_vars
    /\ UNCHANGED elevation_vars
    /\ UNCHANGED selected_targets
    /\ UNCHANGED <<trail_nodes, trail_edges, pc, req, connection, start_nodes, node_idx,
                   all_paths, response, exit_code, rows, error_log>>

\* The working table is empty: the final SELECT filters, orders and limits,
\* and fetchall() returns the rows.
FP_Select ==
    /\ pc = "fp_cte"
    /\ BagToSet(cte_work) = {}
    /\ \E out \in OrderByCostDesc(CteSelect(cte_all),
                                   RowLimit(CteSelect(cte_all), req.max_paths)) :
          rows' = [i \in 1..Len(out) |-> PathRecord(out[i])]
    /\ pc' = "returned"
    /\ UNCHANGED builder_vars
    /\ UNCHANGED elevation_vars
    /\ UNCHANGED selected_targets
    /\ UNCHANGED <<trail_nodes, trail_edges, req, connection, start_nodes, node_idx,
                   all_paths, response, exit_code, cte_work, cte_all, error_log>>

Next ==
    \/ FT_Call
    \/ FT_NoDatabaseUrl
    \/ FT_Connect
    \/ FT_ConnectFails
    \/ FT_Locate
    \/ FT_Search
    \/ FT_Build
    \/ FT_StorageFault
    \/ FT_Finally
    \/ FP_Call
    \/ FP_Iterate
    \/ FP_Select

Spec == Init /\ [][Next]_vars

\* ====================================================================== *
\* find_paths_from_node_optimized, run on a connected finder               *
\* ====================================================================== *

MaxTargetNodes == 6

\* The Node tables tried: any nodes of the lattice, joined in a chain.
TargetNodeRows == {[id |-> n, x |-> PosX(n), y |-> PosY(n)] : n \in 1..MaxTargetNodes}
TargetEdgeRows(nodes) ==
    {[id |-> n, source_node_id |-> n, target_node_id |-> n + 1, length_km |-> 10] :
        n \in {m \in 1..(MaxTargetNodes - 1) :
                 \E a, b \in nodes : a.id = m /\ b.id = m + 1}}

\* max_paths tried: below and above the eight bins of the minimum.
MaxPathsTried == {1, 12, 36}

InitTargets ==
    /\ trail_nodes \in SUBSET TargetNodeRows
    /\ trail_edges = TargetEdgeRows(trail_nodes)
    /\ Idle
    /\ hiking_trails = {}
    /\ committed = [nodes |-> trail_nodes, edges |-> trail_edges]
    /\ tables_at_start = committed
    /\ builds = 0
    /\ build_log = <<>>

\* The call; start_node_id may be an id no node has.
FO_Call ==
    /\ pc = "idle"
    /\ \E s \in 1..(MaxTargetNodes + 1), md \in MaxDistances, mp \in MaxPathsTried :
          req' = [op |-> "find_paths_from_node_optimized", start_node_id |-> s,
                  max_distance |-> md, max_paths |-> mp]
    /\ connection' = "open"
    /\ pc' = "fo_select"
    /\ UNCHANGED builder_vars
    /\ UNCHANGED elevation_vars
    /\ UNCHANGED <<trail_nodes, trail_edges, start_nodes, node_idx, all_paths,
                   response, exit_code, cte_work, cte_all, rows, error_log,
                   selected_targets>>

\* Steps 1 to 3: the start node's geometry and the candidates are fetched
\* ([] is returned when either is missing), the candidates are binned and
\* one target is picked from every non-empty bin.
FO_SelectTargets ==
    /\ pc = "fo_select"
    /\ LET geom == {n \in trail_nodes : n.id = req.start_node_id}
           start == CHOOSE n \in geom : TRUE
       IN  IF geom = {} \/ CandidateNodes(start, req.max_distance) = {}
           THEN /\ rows' = <<>>
                /\ pc' = "returned"
                /\ UNCHANGED selected_targets
           ELSE /\ selected_targets' \in
                      SelectTargets(start, CandidateNodes(start, req.max_distance),
                                    NumBins(req.max_paths), 0)
                /\ pc' = "fo_paths"
                /\ UNCHANGED rows
    /\ UNCHANGED builder_vars
    /\ UNCHANGED elevation_vars
    /\ UNCHANGED <<trail_nodes, trail_edges, req, connection, start_nodes, node_idx,
                   all_paths, response, exit_code, cte_work, cte_all, error_log>>

\* The loop over selected_targets, and the return of all_paths.
FO_Paths ==
    /\ pc = "fo_paths"
    /\ rows' \in TargetLoop(req.start_node_id, selected_targets, 1, <<>>, req.max_paths)
    /\ pc' = "returned"
    /\ UNCHANGED builder_vars
    /\ UNCHANGED elevation_vars
    /\ UNCHANGED <<trail_nodes, trail_edges, req, connection, start_nodes, node_idx,
                   all_paths, response, exit_code, cte_work, cte_all, error_log,
                   selected_targets>>

NextTargets ==
    \/ FO_Call
    \/ FO_SelectTargets
    \/ FO_Paths

SpecTargets == InitTargets /\ [][NextTargets]_vars

\* ====================================================================== *
\* build_geojson_from_paths, called on a list of path records              *
\* ====================================================================== *

MaxPathList == 2

\* The path records tried as elements of the list: the paths from node 1
\* (the zero-edge record _format_path can build among them) and a record
\* naming an edge the Edge table does not hold.
PathRecordsTried ==
    {PathRecord(r) : r \in SimplePaths(CteBase(1))}
    \cup {[path_edges |-> <<MaxEdges + 1>>, path_directions |-> <<TRUE>>,
           node_sequence |-> <<1, 2>>, total_cost |-> 10]}

PathListsTried ==
    UNION {[1..n -> PathRecordsTried] : n \in 0..MaxPathList}

\* finder.build_geojson_from_paths(paths, max_distance_cut) is called.
BG_Call ==
    /\ pc = "idle"
    /\ \E paths \in PathListsTried, cut \in MaxDistances \cup {NoCut} :
          req' = [op |-> "build_geojson_from_paths", paths |-> paths,
                  max_distance_cut |-> cut]
    /\ connection' = "open"
    /\ pc' = "bg_build"
    /\ UNCHANGED builder_vars
    /\ UNCHANGED elevation_vars
    /\ UNCHANGED selected_targets
    /\ UNCHANGED <<trail_nodes, trail_edges, start_nodes, node_idx, all_paths,
                   response, exit_code, cte_work, cte_all, rows, error_log>>

\* The loop over paths runs and the FeatureCollection is returned.
BG_Build ==
    /\ pc = "bg_build"
    /\ response' = BuildGeojsonFromPaths(req.paths, req.max_distance_cut)
    /\ pc' = "returned"
    /\ UNCHANGED builder_vars
    /\ UNCHANGED elevation_vars
    /\ UNCHANGED selected_targets
    /\ UNCHANGED <<trail_nodes, trail_edges, req, connection, start_nodes, node_idx,
                   all_paths, exit_code, cte_work, cte_all, rows, error_log>>

NextGeo ==
    \/ BG_Call
    \/ BG_Build

SpecGeo == Init /\ [][NextGeo]_vars

\* ====================================================================== *
\* The network builder (build-trail-network.py)                             *
\*                                                                          *
\* Coordinates here are geometry coordinates (degrees) in units of half the *
\* snap tolerance.  A raw point is <<x, y>>; a node row is                  *
\* [id, x, y, den, node_type] at the point (x/den, y/den), the mean of its  *
\* cluster's rows.  Lengths are metres (0.001 km).  Elevation is left out.  *
\* ====================================================================== *

\* snap_tolerance, in the coordinate unit.
SnapTolerance == 2

MaxTrails == 2
MaxBuilds == 2

\* The raw trails tried: [id, pts, legs], pts the vertices of the line and
\* legs[i] the geodesic length in metres from pts[i] to pts[i+1].  Any two
\* of them meet only at vertices both have.
TrailCatalogue ==
    {[id |-> 1, pts |-> <<<<0, 0>>, <<3, 0>>, <<6, 0>>>>, legs |-> <<18, 18>>],
     [id |-> 2, pts |-> <<<<6, 0>>, <<6, 6>>>>, legs |-> <<36>>],
     [id |-> 3, pts |-> <<<<0, 0>>, <<3, 3>>, <<6, 0>>>>, legs |-> <<26, 26>>],
     [id |-> 4, pts |-> <<<<6, 0>>, <<3, -3>>, <<0, 0>>>>, legs |-> <<27, 27>>],
     [id |-> 5, pts |-> <<<<3, 3>>, <<3, 0>>, <<3, -3>>>>, legs |-> <<18, 18>>],
     [id |-> 6, pts |-> <<<<0, 10>>, <<0, 12>>>>, legs |-> <<12>>],
     [id |-> 7, pts |-> <<<<1, 13>>, <<2, 11>>>>, legs |-> <<14>>]}

TrailSets == {T \in SUBSET TrailCatalogue : Cardinality(T) >= 1 /\ Cardinality(T) <= MaxTrails}

\* Character codes of a node_type, for the comparison MIN() makes on text.
TypeCodes(t) ==
    IF t = "endpoint" THEN <<101, 110, 100, 112, 111, 105, 110, 116>>
    ELSE <<105, 110, 116, 101, 114, 115, 101, 99, 116, 105, 111, 110>>

\* a < b as text: at the first position where they differ, or a a proper prefix.
RECURSIVE CodesLess(_, _)
CodesLess(a, b) ==
    IF b = <<>> THEN FALSE
    ELSE IF a = <<>> THEN TRUE
    ELSE IF a[1] # b[1] THEN a[1] < b[1]
    ELSE CodesLess(Tail(a), Tail(b))

\* Variant: MAX(node_type).
MinNodeTypeIsMax(types) ==
    CHOOSE t \in types : \A o \in types : o = t \/ CodesLess(TypeCodes(o), TypeCodes(t))

\* MIN(node_type) over the rows of a cluster.
MinNodeType(types) ==
    CHOOSE t \in types : \A o \in types : o = t \/ CodesLess(TypeCodes(t), TypeCodes(o))

\* Two lines share a leg: their intersection is not a Point or MultiPoint.
SharesLeg(a, b) ==
    \E i \in 1..(Len(a.pts) - 1), j \in 1..(Len(b.pts) - 1) :
        \/ a.pts[i] = b.pts[j] /\ a.pts[i + 1] = b.pts[j + 1]
        \/ a.pts[i] = b.pts[j + 1] /\ a.pts[i + 1] = b.pts[j]

\* temp_raw_nodes: the rows [pt, node_type] of step 1 (UNION: distinct rows).
RawNodes(trails) ==
    LET endpoints == {[pt |-> t.pts[1], node_type |-> "endpoint"] : t \in trails}
                     \cup {[pt |-> t.pts[Len(t.pts)], node_type |-> "endpoint"] : t \in trails}
        pairs == {ab \in trails \X trails : ab[1].id < ab[2].id /\ ~SharesLeg(ab[1], ab[2])}
        intersections == UNION {{[pt |-> q, node_type |-> "intersection"] :
                                    q \in Range(ab[1].pts) \cap Range(ab[2].pts)} : ab \in pairs}
    IN  endpoints \cup intersections

PtDist2(p, q) == (p[1] - q[1]) * (p[1] - q[1]) + (p[2] - q[2]) * (p[2] - q[2])

\* Variant: a neighbour is strictly closer than eps.
DbscanNeighbourStrict(r, o, eps) == PtDist2(r.pt, o.pt) < eps * eps

\* Two rows are neighbours for ST_ClusterDBSCAN: within eps of each other.
DbscanNeighbour(r, o, eps) == PtDist2(r.pt, o.pt) <= eps * eps

\* The cluster grown from a set of rows: with minpoints := 1 every row is a
\* core row, so a cluster is a connected component of the neighbour relation.
RECURSIVE GrowCluster(_, _, _)
GrowCluster(seed, raw, eps) ==
    LET more == {o \in raw : \E r \in seed : DbscanNeighbour(r, o, eps)}
    IN  IF more \subseteq seed THEN seed ELSE GrowCluster(seed \cup more, raw, eps)

\* ST_ClusterDBSCAN(geom, eps, minpoints := 1) OVER (): the clusters.
Clusters(raw, eps) == {GrowCluster({r}, raw, eps) : r \in raw}

RECURSIVE SumX(_)
SumX(rs) == IF rs = {} THEN 0 ELSE LET r == CHOOSE o \in rs : TRUE IN r.pt[1] + SumX(rs \ {r})
RECURSIVE SumY(_)
SumY(rs) == IF rs = {} THEN 0 ELSE LET r == CHOOSE o \in rs : TRUE IN r.pt[2] + SumY(rs \ {r})

\* The row inserted for one cluster (GROUP BY cluster_id), with the id the
\* serial column gives it.
ClusterNode(cluster, id) ==
    [id |-> id, x |-> SumX(cluster), y |-> SumY(cluster), den |-> Cardinality(cluster),
     node_type |-> MinNodeType({r.node_type : r \in cluster})]

\* The order in which a statement's result rows arrive is the executor's;
\* the ascending and the descending order of a key are the two tried.
RECURSIVE SortByKey(_, _)
SortByKey(S, key) ==
    IF S = {} THEN <<>>
    ELSE LET m == CHOOSE x \in S : \A y \in S : key[x] <= key[y]
         IN  <<m>> \o SortByKey(S \ {m}, key)

Reverse(q) == [i \in 1..Len(q) |-> q[Len(q) + 1 - i]]

RowOrders(S, key) == {SortByKey(S, key), Reverse(SortByKey(S, key))}

RawKey(r) == (r.pt[1] + 50) * 10000 + (r.pt[2] + 50) * 10 + (IF r.node_type = "endpoint" THEN 0 ELSE 1)

ClusterKey(c) == RawKey(CHOOSE r \in c : \A o \in c : RawKey(r) <= RawKey(o))

\* INSERT INTO trail_nodes ... GROUP BY cluster_id: the serial column
\* numbers the rows from 1 in the order the groups arrive.
InsertedNodes(trails) ==
    LET cs == Clusters(RawNodes(trails), SnapTolerance)
    IN  {{ClusterNode(order[i], i) : i \in DOMAIN order} :
            order \in RowOrders(cs, [c \in cs |-> ClusterKey(c)])}

\* ---------------------------------------------------------------- edges

\* Squared distance from node n to the raw point p, times n.den^2.
NodePtDist2Scaled(n, p) ==
    (n.x - p[1] * n.den) * (n.x - p[1] * n.den) + (n.y - p[2] * n.den) * (n.y - p[2] * n.den)

\* ST_DWithin(point, node, tol)
NodeWithin(n, p, tol) == NodePtDist2Scaled(n, p) <= tol * tol * n.den * n.den

\* ST_Distance(node, point) < limit
NodeCloserThan(n, p, limit) == NodePtDist2Scaled(n, p) < limit * limit * n.den * n.den

\* ORDER BY geometry <-> point LIMIT 1: a node no other node is closer than.
NearestNodes(p, nodes) ==
    {n \in nodes : \A m \in nodes :
        NodePtDist2Scaled(n, p) * m.den * m.den <= NodePtDist2Scaled(m, p) * n.den * n.den}

\* ST_Split(ST_Snap(...)): the line is cut at its inner vertices that have a
\* node within the tolerance; the vertex indices of the cuts, ends included.
CutIndices(t, nodes) ==
    {1, Len(t.pts)} \cup {i \in 2..(Len(t.pts) - 1) :
                            \E n \in nodes : NodeWithin(n, t.pts[i], SnapTolerance)}

\* The piece of trail t from vertex a to vertex b.
Segment(t, a, b) ==
    [trail_id |-> t.id, from |-> a, start |-> t.pts[a], end |-> t.pts[b],
     length_km |-> SumSeq([k \in 1..(b - a) |-> t.legs[a + k - 1]])]

\* temp_trail_segments: one row per piece between two consecutive cuts.
TrailSegments(trails, nodes) ==
    UNION {LET cuts == CutIndices(t, nodes)
           IN  {Segment(t, ab[1], ab[2]) :
                    ab \in {cd \in cuts \X cuts :
                              /\ cd[1] < cd[2]
                              /\ \A m \in cuts : ~(cd[1] < m /\ m < cd[2])}}
           : t \in trails}

\* Variant: a segment whose two ends resolve to one node is kept.
PotentialEdgeWhereAny(source_node, target_node, seg) ==
    /\ NodeCloserThan(source_node, seg.start, 10 * SnapTolerance)
    /\ NodeCloserThan(target_node, seg.end, 10 * SnapTolerance)

\* WHERE of potential_edges (lines 261-263).
PotentialEdgeWhere(source_node, target_node, seg) ==
    /\ source_node.id # target_node.id
    /\ NodeCloserThan(source_node, seg.start, 10 * SnapTolerance)
    /\ NodeCloserThan(target_node, seg.end, 10 * SnapTolerance)

\* potential_edges: every table the two nearest-node lookups can produce.
RECURSIVE PotentialEdges(_, _)
PotentialEdges(segs, nodes) ==
    IF segs = {} THEN {{}}
    ELSE LET s == CHOOSE x \in segs : TRUE
             outcomes == {IF PotentialEdgeWhere(st[1], st[2], s)
                      THEN {[source_node_id |-> st[1].id, target_node_id |-> st[2].id,
                             trail_id |-> s.trail_id, from |-> s.from, length_km |-> s.length_km]}
                      ELSE {} :
                        st \in NearestNodes(s.start, nodes) \X NearestNodes(s.end, nodes)}
         IN  {R \cup o : R \in PotentialEdges(segs \ {s}, nodes), o \in outcomes}

\* The rows of one PARTITION BY source_node_id, target_node_id.
Partition(potential, e) ==
    {o \in potential : o.source_node_id = e.source_node_id /\ o.target_node_id = e.target_node_id}

\* Variant: ORDER BY length_km ASC.
FirstInPartitionShortest(potential) ==
    {e \in potential : \A o \in Partition(potential, e) : e.length_km <= o.length_km}

\* Rows that can get rn = 1: ROW_NUMBER() OVER (... ORDER BY length_km DESC).
FirstInPartition(potential) ==
    {e \in potential : \A o \in Partition(potential, e) : o.length_km <= e.length_km}

\* Variant: no WHERE rn = 1, every candidate row is inserted.
DeduplicatedAll(potential) == {potential}

\* deduplicated_edges WHERE rn = 1: one row of each partition, every choice
\* among rows of equal greatest length.
Deduplicated(potential) ==
    {D \in SUBSET FirstInPartition(potential) :
        \A e \in potential : Cardinality(D \cap Partition(potential, e)) = 1}

\* A double precision value assigned to a DECIMAL(10, 2) column: rounded to
\* the nearest 0.01 km, halves away from zero.
ToDecimal2(len) == 10 * ((len + 5) \div 10)

EdgeKey(e) == e.source_node_id * 1000 + e.target_node_id

\* INSERT INTO trail_edges ... WHERE rn = 1: the tables that can result.
InsertedEdges(trails, nodes) ==
    UNION {UNION {{{[id |-> i, source_node_id |-> order[i].source_node_id,
                     target_node_id |-> order[i].target_node_id,
                     original_trail_id |-> order[i].trail_id,
                     length_km |-> ToDecimal2(order[i].length_km)] : i \in DOMAIN order} :
                        order \in RowOrders(D, [e \in D |-> EdgeKey(e)])} :
                    D \in Deduplicated(P)} :
            P \in PotentialEdges(TrailSegments(trails, nodes), nodes)}

\* ------------------------------------------------- build_network, by step

\* No network was built yet; the raw trails are loaded.
InitBuild ==
    /\ Idle
    /\ trail_nodes = {}
    /\ trail_edges = {}
    /\ hiking_trails \in TrailSets
    /\ committed = [nodes |-> {}, edges |-> {}]
    /\ tables_at_start = committed
    /\ builds = 0
    /\ build_log = <<>>

\* build_network() is called (again, after a run ended): self.connect().
B_Connect ==
    /\ pc \in {"idle", "b_done", "b_failed"}
    /\ builds < MaxBuilds
    /\ builds' = builds + 1
    /\ connection' = "open"
    /\ error_log' = NoValue
    /\ tables_at_start' = committed
    /\ pc' = "b_count"
    /\ UNCHANGED <<trail_nodes, trail_edges, hiking_trails, committed, build_log>>
    /\ UNCHANGED finder_vars
    /\ UNCHANGED elevation_vars

\* self.connect() raises: self.connection is None, nothing to roll back.
B_ConnectFails ==
    /\ pc \in {"idle", "b_done", "b_failed"}
    /\ builds < MaxBuilds
    /\ builds' = builds + 1
    /\ connection' = "none"
    /\ error_log' = "b_connect"
    /\ tables_at_start' = committed
    /\ pc' = "b_finally"
    /\ UNCHANGED <<trail_nodes, trail_edges, hiking_trails, committed, build_log>>
    /\ UNCHANGED finder_vars
    /\ UNCHANGED elevation_vars

\* SELECT COUNT(*) FROM hiking_trails
B_CountTrails ==
    /\ pc = "b_count"
    /\ pc' = "b_create_tables"
    /\ UNCHANGED <<trail_nodes, trail_edges, connection, error_log>>
    /\ UNCHANGED builder_vars
    /\ UNCHANGED finder_vars
    /\ UNCHANGED elevation_vars

\* Variant: the tables are created only if missing, their rows are kept.
B_CreateNetworkTablesKeepRows ==
    /\ pc = "b_create_tables"
    /\ committed' = [nodes |-> trail_nodes, edges |-> trail_edges]
    /\ pc' = "b_nodes"
    /\ UNCHANGED <<trail_nodes, trail_edges, connection, error_log, hiking_trails,
                   tables_at_start, builds, build_log>>
    /\ UNCHANGED finder_vars
    /\ UNCHANGED elevation_vars

\* create_network_tables: drop both tables, create them empty, commit.
B_CreateNetworkTables ==
    /\ pc = "b_create_tables"
    /\ trail_nodes' = {}
    /\ trail_edges' = {}
    /\ committed' = [nodes |-> {}, edges |-> {}]
    /\ pc' = "b_nodes"
    /\ UNCHANGED <<connection, error_log, hiking_trails, tables_at_start, builds, build_log>>
    /\ UNCHANGED finder_vars
    /\ UNCHANGED elevation_vars

\* extract_and_insert_nodes: raw points, clustering, insert, commit.
B_ExtractAndInsertNodes ==
    /\ pc = "b_nodes"
    /\ \E inserted \in InsertedNodes(hiking_trails) :
          /\ trail_nodes' = trail_nodes \cup inserted
          /\ committed' = [nodes |-> trail_nodes \cup inserted, edges |-> trail_edges]
    /\ pc' = "b_edges"
    /\ UNCHANGED <<trail_edges, connection, error_log, hiking_trails, tables_at_start,
                   builds, build_log>>
    /\ UNCHANGED finder_vars
    /\ UNCHANGED elevation_vars

\* create_edges_from_trails: segments, node lookup, deduplication, insert,
\* commit; the counts of the build are logged.
B_CreateEdgesFromTrails ==
    /\ pc = "b_edges"
    /\ \E inserted \in InsertedEdges(hiking_trails, trail_nodes) :
          /\ trail_edges' = trail_edges \cup inserted
          /\ committed' = [nodes |-> trail_nodes, edges |-> trail_edges \cup inserted]
          /\ build_log' = Append(build_log,
                                 [node_count |-> Cardinality(trail_nodes),
                                  edge_count |-> Cardinality(trail_edges \cup inserted)])
    /\ pc' = "b_indexes"
    /\ UNCHANGED <<trail_nodes, connection, error_log, hiking_trails, tables_at_start, builds>>
    /\ UNCHANGED finder_vars
    /\ UNCHANGED elevation_vars

\* create_indexes_and_constraints: two indexes, commit.
B_CreateIndexes ==
    /\ pc = "b_indexes"
    /\ committed' = [nodes |-> trail_nodes, edges |-> trail_edges]
    /\ pc' = "b_analyze"
    /\ UNCHANGED <<trail_nodes, trail_edges, connection, error_log, hiking_trails,
                   tables_at_start, builds, build_log>>
    /\ UNCHANGED finder_vars
    /\ UNCHANGED elevation_vars

\* analyze_network with at least one edge: the statistics are logged.
B_Analyze ==
    /\ pc = "b_analyze"
    /\ trail_edges # {}
    /\ pc' = "b_finally"
    /\ UNCHANGED <<trail_nodes, trail_edges, connection, error_log>>
    /\ UNCHANGED builder_vars
    /\ UNCHANGED finder_vars
    /\ UNCHANGED elevation_vars

\* analyze_network with no edge: SUM(length_km) is NULL and formatting None
\* with ">20.2f" raises; the handler rolls back and re-raises.
B_AnalyzeNoEdges ==
    /\ pc = "b_analyze"
    /\ trail_edges = {}
    /\ error_log' = "b_analyze"
    /\ trail_nodes' = committed.nodes
    /\ trail_edges' = committed.edges
    /\ pc' = "b_finally"
    /\ UNCHANGED connection
    /\ UNCHANGED builder_vars
    /\ UNCHANGED finder_vars
    /\ UNCHANGED elevation_vars

\* A statement of the current step raises: except logs, rolls back the open
\* transaction (back to the last commit) and re-raises.
B_Fault ==
    /\ pc \in {"b_count", "b_create_tables", "b_nodes", "b_edges", "b_indexes", "b_analyze"}
    /\ error_log' = pc
    /\ trail_nodes' = committed.nodes
    /\ trail_edges' = committed.edges
    /\ pc' = "b_finally"
    /\ UNCHANGED connection
    /\ UNCHANGED builder_vars
    /\ UNCHANGED finder_vars
    /\ UNCHANGED elevation_vars

\* Variant: disconnect() is the last statement of the try block, not of a
\* finally clause.
B_FinallyAfterSuccessOnly ==
    /\ pc = "b_finally"
    /\ connection' = IF connection # "none" /\ error_log = NoValue
                     THEN "closed" ELSE connection
    /\ trail_nodes' = committed.nodes
    /\ trail_edges' = committed.edges
    /\ pc' = IF error_log = NoValue THEN "b_done" ELSE "b_failed"
    /\ UNCHANGED error_log
    /\ UNCHANGED builder_vars
    /\ UNCHANGED finder_vars
    /\ UNCHANGED elevation_vars

\* finally: self.disconnect(); the run ends normally or with the error.
B_Finally ==
    /\ pc = "b_finally"
    /\ connection' = IF connection # "none" THEN "closed" ELSE connection
    /\ trail_nodes' = committed.nodes
    /\ trail_edges' = committed.edges
    /\ pc' = IF error_log = NoValue THEN "b_done" ELSE "b_failed"
    /\ UNCHANGED error_log
    /\ UNCHANGED builder_vars
    /\ UNCHANGED finder_vars
    /\ UNCHANGED elevation_vars

NextBuild ==
    \/ B_Connect
    \/ B_ConnectFails
    \/ B_CountTrails
    \/ B_CreateNetworkTables
    \/ B_ExtractAndInsertNodes
    \/ B_CreateEdgesFromTrails
    \/ B_CreateIndexes
    \/ B_Analyze
    \/ B_AnalyzeNoEdges
    \/ B_Fault
    \/ B_Finally

SpecBuild == InitBuild /\ [][NextBuild]_vars

\* ====================================================================== *
\* Runs that go on: a started call keeps executing                         *
\* ====================================================================== *

\* find_paths_from_node alone; the query, once started, is evaluated to
\* its end by the database.
NextEnumerate ==
    \/ FP_Call
    \/ FP_Iterate
    \/ FP_Select

SpecEnumerate ==
    Init /\ [][NextEnumerate]_vars /\ WF_vars(FP_Iterate) /\ WF_vars(FP_Select)

\* find_trails and build_network from their entry points, the finder on
\* the graphs whose edges are all 0.01 km long and the builder on one raw
\* trail or none; every statement of a started run returns or raises.
InitRuns ==
    \/ Init /\ \A e \in trail_edges : e.length_km = 10
    \/ InitBuild /\ Cardinality(hiking_trails) = 1

FinderSteps ==
    \/ FT_Connect
    \/ FT_ConnectFails
    \/ FT_Locate
    \/ FT_Search
    \/ FT_Build
    \/ FT_StorageFault
    \/ FT_Finally

BuilderSteps ==
    \/ B_CountTrails
    \/ B_CreateNetworkTables
    \/ B_ExtractAndInsertNodes
    \/ B_CreateEdgesFromTrails
    \/ B_CreateIndexes
    \/ B_Analyze
    \/ B_AnalyzeNoEdges
    \/ B_Fault
    \/ B_Finally

NextRuns ==
    \/ FT_Call
    \/ FT_NoDatabaseUrl
    \/ FinderSteps
    \/ B_Connect
    \/ B_ConnectFails
    \/ BuilderSteps

SpecRuns ==
    InitRuns /\ [][NextRuns]_vars /\ WF_vars(FinderSteps) /\ WF_vars(BuilderSteps)

\* ====================================================================== *
\* GET /hikes: FilterParams and list_hikes                                 *
\* ====================================================================== *

\* A query parameter that was not supplied (None), and one supplied as v.
Absent == [given |-> FALSE]
Given(v) == [given |-> TRUE, v |-> v]

\* The values tried for the three parameters, in and out of their ranges.
Longitudes == {Absent} \cup {Given(v) : v \in {-181, -180, 11, 180, 181}}
Latitudes == {Absent} \cup {Given(v) : v \in {-91, -90, 46, 90, 91}}
Ranges == {Absent} \cup {Given(v) : v \in {-1, 0, 1, 5}}

\* The constraints of the three fields of FilterParams; None passes each.
LongitudeOk(p) == p = Absent \/ (p.v >= -180 /\ p.v <= 180)
LatitudeOk(p) == p = Absent \/ (p.v >= -90 /\ p.v <= 90)
RangeKmOk(p) == p = Absent \/ p.v > 0

\* model_dump().values()
ModelDumpValues(fp) == {fp.longitude, fp.latitude, fp.range_km}

all_query_params_missing(fp) == \A value \in ModelDumpValues(fp) : value = Absent

all_query_params_present(fp) == \A value \in ModelDumpValues(fp) : value # Absent

\* No request is being served.
InitHikes ==
    /\ Idle
    /\ trail_nodes = {}
    /\ trail_edges = {}
    /\ hiking_trails = {}
    /\ committed = [nodes |-> {}, edges |-> {}]
    /\ tables_at_start = committed
    /\ builds = 0
    /\ build_log = <<>>

\* GET /hikes arrives with some of the three query parameters.
H_Request ==
    /\ pc = "idle"
    /\ \E lon \in Longitudes, lat \in Latitudes, r \in Ranges :
          req' = [op |-> "list_hikes", longitude |-> lon, latitude |-> lat, range_km |-> r]
    /\ pc' = "h_validate"
    /\ UNCHANGED builder_vars
    /\ UNCHANGED elevation_vars
    /\ UNCHANGED selected_targets
    /\ UNCHANGED <<trail_nodes, trail_edges, connection, start_nodes, node_idx,
                   all_paths, response, exit_code, cte_work, cte_all, rows, error_log>>

\* The dependency FilterParams is built from the query string: a value out
\* of its range is refused before list_hikes runs, with the status of a
\* request validation error (422) or, the error being raised while the
\* model is constructed, of an unhandled exception (500).
H_Validate ==
    /\ pc = "h_validate"
    /\ IF LongitudeOk(req.longitude) /\ LatitudeOk(req.latitude) /\ RangeKmOk(req.range_km)
       THEN /\ pc' = "h_list_hikes"
            /\ response' = response
            /\ error_log' = error_log
       ELSE /\ pc' = "h_done"
            /\ \E status \in {422, 500} : response' = [status |-> status]
            /\ error_log' = "h_validate"
    /\ UNCHANGED builder_vars
    /\ UNCHANGED elevation_vars
    /\ UNCHANGED selected_targets
    /\ UNCHANGED <<trail_nodes, trail_edges, req, connection, start_nodes, node_idx,
                   all_paths, exit_code, cte_work, cte_all, rows>>

\* list_hikes: all three present calls get_hikes_near_point, anything else
\* raises HTTPException(status_code=400).
H_ListHikes ==
    /\ pc = "h_list_hikes"
    /\ IF all_query_params_present(req)
       THEN /\ pc' = "h_query"
            /\ response' = response
       ELSE /\ pc' = "h_done"
            /\ response' = [status |-> 400]
    /\ UNCHANGED builder_vars
    /\ UNCHANGED elevation_vars
    /\ UNCHANGED selected_targets
    /\ UNCHANGED <<trail_nodes, trail_edges, req, connection, start_nodes, node_idx,
                   all_paths, exit_code, cte_work, cte_all, rows, error_log>>

\* get_hikes_near_point: its own range checks raise ValueError; otherwise
\* LIST_HIKES_NEAR_POINT_SQL runs with (longitude, latitude, range_km,
\* range_km) and the rows are returned.
H_GetHikesNearPoint ==
    /\ pc = "h_query"
    /\ IF /\ -180 <= req.longitude.v /\ req.longitude.v <= 180
          /\ -90 <= req.latitude.v /\ req.latitude.v <= 90
          /\ ~(req.range_km.v <= 0)
       THEN /\ response' = [status |-> 200, query |-> "LIST_HIKES_NEAR_POINT_SQL",
                            params |-> <<req.longitude.v, req.latitude.v,
                                         req.range_km.v, req.range_km.v>>]
            /\ error_log' = error_log
       ELSE /\ response' = [status |-> 500]
            /\ error_log' = "ValueError"
    /\ pc' = "h_done"
    /\ UNCHANGED builder_vars
    /\ UNCHANGED elevation_vars
    /\ UNCHANGED selected_targets
    /\ UNCHANGED <<trail_nodes, trail_edges, req, connection, start_nodes, node_idx,
                   all_paths, exit_code, cte_work, cte_all, rows>>

\* The query fails: rollback, RuntimeError, answered as a server error.
H_QueryFails ==
    /\ pc = "h_query"
    /\ response' = [status |-> 500]
    /\ error_log' = "RuntimeError"
    /\ pc' = "h_done"
    /\ UNCHANGED builder_vars
    /\ UNCHANGED elevation_vars
    /\ UNCHANGED selected_targets
    /\ UNCHANGED <<trail_nodes, trail_edges, req, connection, start_nodes, node_idx,
                   all_paths, exit_code, cte_work, cte_all, rows>>

NextHikes ==
    \/ H_Request
    \/ H_Validate
    \/ H_ListHikes
    \/ H_GetHikesNearPoint
    \/ H_QueryFails

SpecHikes == InitHikes /\ [][NextHikes]_vars

\* ====================================================================== *
\* ElevationService (scripts/import_trails.py)                             *
\* ====================================================================== *

MaxCalls == 3

\* The coordinate lists passed in: pairs in both orders of one place, and a
\* coordinate of a single number, which the validator refuses.
CoordinateLists ==
    {<<>>, <<<<1, 2>>>>, <<<<2, 1>>>>, <<<<1, 2>>, <<2, 1>>>>, <<<<3>>>>, <<<<1, 2>>, <<3>>>>}

\* CoordinateListValidator: every coordinate has at least two items.
ValidCoordinates(coordinates) == \A i \in DOMAIN coordinates : Len(coordinates[i]) >= 2

\* What the lookup service holds for a place (metres).
ElevationAt(latitude, longitude) == 100 * latitude + longitude

\* locations of the payload, by the order setting.
Locations(validated_coords, latitude_first) ==
    [i \in DOMAIN validated_coords |->
        IF latitude_first
        THEN [latitude |-> validated_coords[i][1], longitude |-> validated_coords[i][2]]
        ELSE [latitude |-> validated_coords[i][2], longitude |-> validated_coords[i][1]]]

\* What the POST to /lookup can end in: a response with one result per
\* location, a response without "results", a RequestException.
LookupOutcomes == {"results", "no_results", "request_exception"}

\* The elevations read from a response.
ElevationsOf(locations, outcome) ==
    IF outcome = "results"
    THEN [i \in DOMAIN locations |-> ElevationAt(locations[i].latitude, locations[i].longitude)]
    ELSE <<>>

\* self.elevation_cache[cache_key] = elevations
CachePut(cache, cache_key, elevations) ==
    [k \in DOMAIN cache \cup {cache_key} |-> IF k = cache_key THEN elevations ELSE cache[k]]

\* Variant: the result of a lookup is not stored.
GetElevationForCoordinatesNoStore(cache, latitude_first, coordinates, outcome) ==
    IF ~ValidCoordinates(coordinates)
    THEN [result |-> <<>>, cache |-> cache, branch |-> "invalid"]
    ELSE IF coordinates = <<>>
    THEN [result |-> <<>>, cache |-> cache, branch |-> "empty"]
    ELSE IF coordinates \in DOMAIN cache
    THEN [result |-> cache[coordinates], cache |-> cache, branch |-> "cache"]
    ELSE IF outcome = "request_exception"
    THEN [result |-> [i \in DOMAIN coordinates |-> 0], cache |-> cache, branch |-> "fallback"]
    ELSE [result |-> ElevationsOf(Locations(coordinates, latitude_first), outcome),
          cache |-> cache, branch |-> "lookup"]

\* Variant: a failed request returns the empty list.
GetElevationForCoordinatesEmptyFallback(cache, latitude_first, coordinates, outcome) ==
    IF ~ValidCoordinates(coordinates)
    THEN [result |-> <<>>, cache |-> cache, branch |-> "invalid"]
    ELSE IF coordinates = <<>>
    THEN [result |-> <<>>, cache |-> cache, branch |-> "empty"]
    ELSE IF coordinates \in DOMAIN cache
    THEN [result |-> cache[coordinates], cache |-> cache, branch |-> "cache"]
    ELSE IF outcome = "request_exception"
    THEN [result |-> <<>>, cache |-> cache, branch |-> "fallback"]
    ELSE LET elevations == ElevationsOf(Locations(coordinates, latitude_first), outcome)
         IN  [result |-> elevations, cache |-> CachePut(cache, coordinates, elevations),
              branch |-> "lookup"]

\* get_elevation_for_coordinates: the value returned, the cache afterwards
\* and the branch taken.
GetElevationForCoordinates(cache, latitude_first, coordinates, outcome) ==
    IF ~ValidCoordinates(coordinates)
    THEN [result |-> <<>>, cache |-> cache, branch |-> "invalid"]
    ELSE IF coordinates = <<>>
    THEN [result |-> <<>>, cache |-> cache, branch |-> "empty"]
    ELSE IF coordinates \in DOMAIN cache
    THEN [result |-> cache[coordinates], cache |-> cache, branch |-> "cache"]
    ELSE IF outcome = "request_exception"
    THEN [result |-> [i \in DOMAIN coordinates |-> 0], cache |-> cache, branch |-> "fallback"]
    ELSE LET elevations == ElevationsOf(Locations(coordinates, latitude_first), outcome)
         IN  [result |-> elevations, cache |-> CachePut(cache, coordinates, elevations),
              branch |-> "lookup"]

\* ElevationService(): an empty cache, latitude first.
InitElevation ==
    /\ Idle
    /\ trail_nodes = {}
    /\ trail_edges = {}
    /\ hiking_trails = {}
    /\ committed = [nodes |-> {}, edges |-> {}]
    /\ tables_at_start = committed
    /\ builds = 0
    /\ build_log = <<>>

E_SetLatitudeFirst ==
    /\ is_latitude_first' = TRUE
    /\ UNCHANGED <<elevation_cache, call_log>>
    /\ UNCHANGED <<trail_nodes, trail_edges, pc, connection, error_log>>
    /\ UNCHANGED finder_vars
    /\ UNCHANGED builder_vars

E_SetLongitudeFirst ==
    /\ is_latitude_first' = FALSE
    /\ UNCHANGED <<elevation_cache, call_log>>
    /\ UNCHANGED <<trail_nodes, trail_edges, pc, connection, error_log>>
    /\ UNCHANGED finder_vars
    /\ UNCHANGED builder_vars

\* One call of get_elevation_for_coordinates, the lookup (if made) ending
\* in any of its outcomes.
E_GetElevationForCoordinates ==
    /\ Len(call_log) < MaxCalls
    /\ \E coordinates \in CoordinateLists, outcome \in LookupOutcomes :
          LET call == GetElevationForCoordinates(elevation_cache, is_latitude_first,
                                                 coordinates, outcome)
          IN  /\ elevation_cache' = call.cache
              /\ call_log' = Append(call_log,
                                    [coordinates |-> coordinates,
                                     latitude_first |-> is_latitude_first,
                                     outcome |-> IF call.branch \in {"lookup", "fallback"}
                                                 THEN outcome ELSE "none",
                                     branch |-> call.branch,
                                     result |-> call.result])
    /\ UNCHANGED is_latitude_first
    /\ UNCHANGED <<trail_nodes, trail_edges, pc, connection, error_log>>
    /\ UNCHANGED finder_vars
    /\ UNCHANGED builder_vars

NextElevation ==
    \/ E_SetLatitudeFirst
    \/ E_SetLongitudeFirst
    \/ E_GetElevationForCoordinates

SpecElevation == InitElevation /\ [][NextElevation]_vars

\* ====================================================================== *
\* Properties of the path finder                                           *
\* ====================================================================== *

FindTrailsReturned == pc = "returned" /\ req.op = "find_trails"
FindPathsReturned == pc = "returned" /\ req.op = "find_paths_from_node"

\* The lists find_paths_from_node_optimized can return for the start node
\* the loop of find_trails is at.
OptimizedResultsHere ==
    FindPathsFromNodeOptimized(start_nodes[node_idx], req.max_distance, MaxPathsPerNode)

NoRepeat(seq) == \A i, j \in DOMAIN seq : i # j => seq[i] # seq[j]

NodeOf(id) == CHOOSE n \in trail_nodes : n.id = id

\* C1 as stated: every feature find_trails returns reports a
\* total_distance_km of at most max_distance.
C1_ReportedAtMostMaxDistance ==
    FindTrailsReturned =>
        \A i \in DOMAIN response.features :
            response.features[i].total_distance_km <= req.max_distance

\* C1 amended: every feature reports min(total_cost, max_distance) of its
\* path rounded to 0.01 km, hence at most max_distance + 0.005 km.
C1_ReportedIsRoundedBudget ==
    FindTrailsReturned =>
        \A i \in DOMAIN response.features :
            LET f == response.features[i]
                p == all_paths[f.path_id + 1]
                m == Min2(p.total_cost, req.max_distance)
            IN  /\ f.total_distance_km % 10 = 0
                /\ f.total_distance_km - m <= 5
                /\ m - f.total_distance_km <= 5
                /\ f.total_distance_km <= req.max_distance + 5

\* C1 witness: a returned feature of a truncated path whose rounded length
\* is above max_distance.
C1_Witness ==
    /\ FindTrailsReturned
    /\ \E i \in DOMAIN response.features :
          /\ all_paths[response.features[i].path_id + 1].total_cost > req.max_distance
          /\ response.features[i].total_distance_km > req.max_distance

\* C2: every path returned by find_paths_from_node and by
\* find_paths_from_node_optimized has no edge id twice and no node id twice.
C2_PathsAreSimple ==
    /\ FindPathsReturned =>
          \A i \in DOMAIN rows : NoRepeat(rows[i].path_edges) /\ NoRepeat(rows[i].node_sequence)
    /\ pc = "ft_search" =>
          \A paths \in OptimizedResultsHere : \A i \in DOMAIN paths :
              NoRepeat(paths[i].path_edges) /\ NoRepeat(paths[i].node_sequence)

\* C2 witness: on a graph with a cycle through the start node, the
\* enumeration returned a path of two edges.
C2_Witness ==
    /\ FindPathsReturned
    /\ Cardinality(trail_edges) = NumNodes
    /\ \E i \in DOMAIN rows : Len(rows[i].path_edges) >= 2

\* C3: the FeatureCollection find_trails returns never has more than
\* max_paths features.
C3_AtMostMaxPathsFeatures ==
    FindTrailsReturned => Len(response.features) <= req.max_paths

\* C3 witness: max_paths features were returned and the loop stopped
\* before the last start node.
C3_Witness ==
    /\ FindTrailsReturned
    /\ Len(response.features) = req.max_paths
    /\ node_idx < Len(start_nodes)

\* C4 as stated: every path of either strategy has total_cost <= max_distance.
C4_EveryPathWithinMaxDistance ==
    /\ FindPathsReturned => \A i \in DOMAIN rows : rows[i].total_cost <= req.max_distance
    /\ pc = "ft_search" =>
          \A paths \in OptimizedResultsHere : \A i \in DOMAIN paths :
              paths[i].total_cost <= req.max_distance

\* C4 amended: every path of the exhaustive enumeration has total_cost <=
\* max_distance; a path of the diversity-sampled strategy ends at a node
\* whose straight-line distance from the start node is <= max_distance.
C4_ExhaustiveWithinBudgetOptimizedWithinRadius ==
    /\ FindPathsReturned => \A i \in DOMAIN rows : rows[i].total_cost <= req.max_distance
    /\ pc = "ft_search" =>
          \A paths \in OptimizedResultsHere : \A i \in DOMAIN paths :
              LET ns == paths[i].node_sequence
                  a == NodeOf(ns[1])
                  b == NodeOf(ns[Len(ns)])
              IN  /\ ns[1] = start_nodes[node_idx]
                  /\ DWithin(a.x, a.y, b.x, b.y, req.max_distance)

\* C4 witness: the enumeration returned a path that uses the whole budget
\* while the graph has an edge that would have exceeded it.
C4_Witness ==
    /\ FindPathsReturned
    /\ \E i \in DOMAIN rows : rows[i].total_cost = req.max_distance
    /\ \E te \in trail_edges : te.id \notin UNION {Range(rows[i].path_edges) : i \in DOMAIN rows}

\* C5 as stated: with max_distance below the length of every edge,
\* find_trails returns no feature.
C5_NoFeatureBelowEveryEdgeLength ==
    (FindTrailsReturned /\ \A te \in trail_edges : req.max_distance < te.length_km)
        => response.features = <<>>

\* C5 amended: with max_distance below the straight-line distance between
\* every two distinct nodes, find_trails returns no feature.
C5_NoFeatureBelowEveryNodeDistance ==
    (FindTrailsReturned
        /\ \A a, b \in trail_nodes : a.id # b.id => ~DWithin(a.x, a.y, b.x, b.y, req.max_distance))
        => response.features = <<>>

\* C5 witness: such a request returned after searching from a start node
\* that has an edge.
C5_Witness ==
    /\ FindTrailsReturned
    /\ \A a, b \in trail_nodes : a.id # b.id => ~DWithin(a.x, a.y, b.x, b.y, req.max_distance)
    /\ start_nodes # <<>>
    /\ \E te \in trail_edges : te.source_node_id = start_nodes[1] \/ te.target_node_id = start_nodes[1]
    /\ response.features = <<>>

BuildFailed == error_log # NoValue /\ pc \in {"b_finally", "b_failed"}

\* The clusters of the raw points of the loaded trails.
RawClusters == Clusters(RawNodes(hiking_trails), SnapTolerance)

IsCentroidOf(n, c) == n.x = SumX(c) /\ n.y = SumY(c) /\ n.den = Cardinality(c)

\* Squared distance between two nodes, times (a.den * b.den)^2.
NodeDist2Scaled(a, b) ==
    (a.x * b.den - b.x * a.den) * (a.x * b.den - b.x * a.den)
    + (a.y * b.den - b.y * a.den) * (a.y * b.den - b.y * a.den)

NodesCloserThan(a, b, tol) == NodeDist2Scaled(a, b) < tol * tol * a.den * a.den * b.den * b.den

\* C6: when build_network fails at any step, the committed Node and Edge
\* tables are what they were before the build started.
C6_FailedBuildLeavesTablesAsBefore ==
    BuildFailed => committed = tables_at_start

\* C8: the node inserted for a cluster holding an 'intersection' row and an
\* 'endpoint' row has node_type 'intersection'.
C8_MixedClusterIsIntersection ==
    pc = "b_edges" =>
        \A c \in RawClusters :
            {r.node_type : r \in c} = {"endpoint", "intersection"} =>
                \E n \in trail_nodes : IsCentroidOf(n, c) /\ n.node_type = "intersection"

\* C9 as stated: after extract_and_insert_nodes no two distinct nodes lie
\* closer to each other than snap_tolerance.
C9_NodesAtLeastToleranceApart ==
    pc = "b_edges" =>
        \A a, b \in trail_nodes : a.id # b.id => ~NodesCloserThan(a, b, SnapTolerance)

\* C9 amended: after extract_and_insert_nodes the nodes are the centroids of
\* the clusters, one node per cluster, and two raw points of different
\* clusters lie farther apart than snap_tolerance.
C9_ClustersAreToleranceSeparated ==
    pc = "b_edges" =>
        /\ Cardinality(trail_nodes) = Cardinality(RawClusters)
        /\ \A c \in RawClusters : \E n \in trail_nodes : IsCentroidOf(n, c)
        /\ \A r, o \in RawNodes(hiking_trails) :
              PtDist2(r.pt, o.pt) <= SnapTolerance * SnapTolerance
                  => \E c \in RawClusters : r \in c /\ o \in c
        /\ \A c, d \in RawClusters : c # d => c \cap d = {}

\* C9 witness: nodes were inserted, one of them for a cluster of several
\* points, and two of the nodes lie closer than snap_tolerance.
C9_Witness ==
    /\ pc = "b_edges"
    /\ \E c \in RawClusters : Cardinality({r.pt : r \in c}) >= 3
    /\ \E a, b \in trail_nodes : a.id # b.id /\ NodesCloserThan(a, b, SnapTolerance)

\* The greatest length among rows.
MaxLength(es) == CHOOSE l \in {e.length_km : e \in es} : \A e \in es : e.length_km <= l

EdgesOfPair(e) ==
    {x \in trail_edges : x.source_node_id = e.source_node_id
                         /\ x.target_node_id = e.target_node_id}

\* C10 as stated: among the candidate segments resolving to one (source,
\* target) pair exactly one edge is inserted, and its length is the maximum
\* length among those candidates.
C10_OneEdgePerPairOfMaxLength ==
    pc = "b_indexes" =>
        \E P \in PotentialEdges(TrailSegments(hiking_trails, trail_nodes), trail_nodes) :
            /\ \A e \in P :
                  /\ Cardinality(EdgesOfPair(e)) = 1
                  /\ \A x \in EdgesOfPair(e) : x.length_km = MaxLength(Partition(P, e))
            /\ \A x \in trail_edges : \E e \in P : x \in EdgesOfPair(e)

\* C10 amended: exactly one edge is inserted per (source, target) pair, and
\* its stored length is the maximum length among the pair's candidates
\* rounded to 0.01 km.
C10_OneEdgePerPairOfMaxLengthRounded ==
    pc = "b_indexes" =>
        \E P \in PotentialEdges(TrailSegments(hiking_trails, trail_nodes), trail_nodes) :
            /\ \A e \in P :
                  /\ Cardinality(EdgesOfPair(e)) = 1
                  /\ \A x \in EdgesOfPair(e) :
                        x.length_km = ToDecimal2(MaxLength(Partition(P, e)))
            /\ \A x \in trail_edges : \E e \in P : x \in EdgesOfPair(e)

\* C10 witness: two candidates of different lengths resolved to one pair
\* and the edges were inserted.
C10_Witness ==
    /\ pc = "b_indexes"
    /\ \E P \in PotentialEdges(TrailSegments(hiking_trails, trail_nodes), trail_nodes) :
          \E e, o \in P : o \in Partition(P, e) /\ o.length_km < e.length_km

\* C11: every persisted edge joins two different nodes; a segment whose two
\* ends resolve to the same nearest node is never inserted.
C11_NoSelfLoopEdge ==
    /\ \A e \in trail_edges : e.source_node_id # e.target_node_id
    /\ \A e \in committed.edges : e.source_node_id # e.target_node_id

\* C11 witness: edges were inserted while some segment had one node nearest
\* to both of its ends.
C11_Witness ==
    /\ pc = "b_indexes"
    /\ trail_edges # {}
    /\ \E s \in TrailSegments(hiking_trails, trail_nodes) :
          NearestNodes(s.start, trail_nodes) \cap NearestNodes(s.end, trail_nodes) # {}

\* ====================================================================== *
\* Further properties of the path finder                                   *
\* ====================================================================== *

PathShapeOk(p) ==
    /\ Len(p.path_edges) = Len(p.path_directions)
    /\ Len(p.path_directions) = Len(p.node_sequence) - 1
    /\ Len(p.path_edges) > 0

\* C12: every path record either search strategy returns has as many edges
\* as directions, one node more than edges, and at least one edge.
C12_PathRecordsWellFormed ==
    /\ FindPathsReturned => \A i \in DOMAIN rows : PathShapeOk(rows[i])
    /\ pc = "ft_search" =>
          \A paths \in OptimizedResultsHere : \A i \in DOMAIN paths : PathShapeOk(paths[i])

\* C12 witness: the enumeration returned a path of two edges, having left
\* out the zero-edge row of its base case.
C12_Witness ==
    /\ FindPathsReturned
    /\ \E r \in BagToSet(cte_all) : r.path_edges = <<>>
    /\ \E i \in DOMAIN rows : Len(rows[i].path_edges) = 2

\* find_start_nodes returned without raising and found no node.
LocatorFoundNone ==
    /\ req.op = "find_trails"
    /\ pc \in {"ft_finally", "returned", "exited"}
    /\ error_log = NoValue
    /\ start_nodes = <<>>

\* C13: when the locator finds no node, find_trails returns the empty
\* FeatureCollection as a normal result: no search is run, nothing is
\* logged as an error and the process does not exit.
C13_NoStartNodeReturnsEmptyCollection ==
    LocatorFoundNone =>
        /\ response = EmptyCollection
        /\ exit_code = NoValue
        /\ pc # "exited"
        /\ node_idx = 0
        /\ all_paths = <<>>

\* C13 witness: find_trails returned on a graph with edges after the
\* locator found no node within the radius.
C13_Witness ==
    /\ LocatorFoundNone
    /\ pc = "returned"
    /\ trail_edges # {}
    /\ response = EmptyCollection

\* No edge of the Edge table has node n at either end.
Isolated(n) == \A te \in trail_edges : te.source_node_id # n /\ te.target_node_id # n

\* C14: a start node with no incident edge yields an empty path list under
\* either strategy, and the loop of find_trails goes on from it with the
\* paths of the other start nodes kept.
C14_IsolatedStartNodeYieldsNothing ==
    /\ (FindPathsReturned /\ Isolated(req.start_node_id)) => rows = <<>>
    /\ (pc = "ft_search" /\ Isolated(start_nodes[node_idx])) => OptimizedResultsHere = {<<>>}
    /\ [][(pc = "ft_search" /\ Isolated(start_nodes[node_idx]) /\ error_log' = error_log)
            => /\ all_paths' = all_paths
               /\ node_idx < Len(start_nodes) => (pc' = "ft_search" /\ node_idx' = node_idx + 1)
               /\ node_idx = Len(start_nodes) => pc' = "ft_build"]_vars

\* C14 witness: find_trails returned features although the first start
\* node searched has no incident edge.
C14_Witness ==
    /\ FindTrailsReturned
    /\ Len(start_nodes) >= 2
    /\ Isolated(start_nodes[1])
    /\ response.features # <<>>

BuildGeojsonReturned == pc = "returned" /\ req.op = "build_geojson_from_paths"

\* C15 as stated: each feature's path_id is the feature's position in the
\* feature list (0, 1, 2, ... with no gaps), also when paths were dropped.
C15_PathIdIsPositionInFeatureList ==
    BuildGeojsonReturned =>
        \A k \in DOMAIN response.features : response.features[k].path_id = k - 1

\* C15 amended: each feature's path_id is the position in the list passed
\* to build_geojson_from_paths of the path the feature was built from; the
\* ids increase along the feature list and skip the dropped paths.
C15_PathIdIsPositionInPathList ==
    BuildGeojsonReturned =>
        \A k \in DOMAIN response.features :
            LET f == response.features[k]
            IN  /\ f.path_id + 1 \in DOMAIN req.paths
                /\ f.edge_ids = req.paths[f.path_id + 1].path_edges
                /\ f.node_sequence = req.paths[f.path_id + 1].node_sequence
                /\ f.path_id >= k - 1
                /\ k > 1 => response.features[k - 1].path_id < f.path_id

\* C15 witness: a feature was returned for a path that follows a dropped
\* path in the list.
C15_Witness ==
    /\ BuildGeojsonReturned
    /\ Len(req.paths) = 2
    /\ Len(response.features) = 1
    /\ response.features[1].path_id = 1

\* The concatenations, in locator order, of the results the searches from
\* start nodes 1..j can give with the per-node quota, the loop not having
\* reached max_paths before start node j.
RECURSIVE Aggregations(_)
Aggregations(j) ==
    IF j = 0 THEN {<<>>}
    ELSE {a \o p : a \in {b \in Aggregations(j - 1) : Len(b) < req.max_paths},
                   p \in FindPathsFromNodeOptimized(
                            start_nodes[j], req.max_distance,
                            Max2(1, req.max_paths \div Len(start_nodes)))}

FirstN(s, n) == SubSeq(s, 1, Min2(Len(s), n))

\* C16: the list find_trails aggregates is the first max_paths elements of
\* the concatenation, in locator order, of the per-node results obtained
\* with quota max(1, max_paths // number of start nodes); a start node is
\* searched only while fewer than max_paths paths were accumulated.
C16_AggregateIsTruncatedConcatenation ==
    /\ pc = "ft_search" =>
          /\ all_paths \in Aggregations(node_idx - 1)
          /\ Len(all_paths) < req.max_paths
    /\ (pc = "ft_build" \/ (FindTrailsReturned /\ start_nodes # <<>>)) =>
          \E a \in Aggregations(node_idx) :
              /\ all_paths = FirstN(a, req.max_paths)
              /\ node_idx < Len(start_nodes) => Len(a) >= req.max_paths

\* C16 witness: with two paths requested and two start nodes, one path was
\* taken from each.
C16_Witness ==
    /\ FindTrailsReturned
    /\ req.max_paths = 2
    /\ Len(start_nodes) = 2
    /\ Len(all_paths) = 2
    /\ all_paths[1].node_sequence[1] = start_nodes[1]
    /\ all_paths[2].node_sequence[1] = start_nodes[2]

\* Every node can be reached from every other over the edges.
Connected ==
    \A n \in trail_nodes :
        {p.last_node : p \in SimplePaths(CteBase(n.id))} = {m.id : m \in trail_nodes}

\* C17 as stated: on a connected graph with a node within the locator
\* radius, find_trails returns between 1 and max_paths features, each with
\* total_distance_km at most max_distance.
C17_ConnectedGraphGivesFeaturesWithinBudget ==
    (FindTrailsReturned /\ Connected /\ start_nodes # <<>>) =>
        /\ Len(response.features) >= 1
        /\ Len(response.features) <= req.max_paths
        /\ \A i \in DOMAIN response.features :
              response.features[i].total_distance_km <= req.max_distance

\* C17 amended: on such a graph find_trails returns at most max_paths
\* features, each reporting at most max_distance rounded to 0.01 km, and at
\* least one feature when some start node has another node within the
\* straight-line distance max_distance.
C17_ConnectedGraphGivesFeaturesWhenANodeIsInReach ==
    (FindTrailsReturned /\ Connected /\ start_nodes # <<>>) =>
        /\ Len(response.features) <= req.max_paths
        /\ \A i \in DOMAIN response.features :
              response.features[i].total_distance_km <= req.max_distance + 5
        /\ (\E i \in DOMAIN start_nodes :
               \E n \in trail_nodes :
                   /\ n.id # start_nodes[i]
                   /\ DWithin(n.x, n.y, NodeOf(start_nodes[i]).x, NodeOf(start_nodes[i]).y,
                              req.max_distance))
              => Len(response.features) >= 1

\* C17 witness: on a connected graph find_trails returned a feature from a
\* start node that has a node in reach.
C17_Witness ==
    /\ FindTrailsReturned
    /\ Connected
    /\ Cardinality(trail_edges) >= 2
    /\ start_nodes # <<>>
    /\ Len(response.features) >= 1

\* ====================================================================== *
\* Further properties of the network builder                               *
\* ====================================================================== *

C19_FinderLeavesTablesUnchanged ==
    /\ trail_nodes = committed.nodes
    /\ trail_edges = committed.edges
    /\ [][/\ trail_nodes' = trail_nodes
          /\ trail_edges' = trail_edges
          /\ committed' = committed]_vars

\* C19 witness: find_trails returned features from a graph that still has
\* an edge none of the returned paths uses.
C19_Witness ==
    /\ FindTrailsReturned
    /\ response.features # <<>>
    /\ \E te \in trail_edges :
          \A i \in DOMAIN all_paths : te.id \notin Range(all_paths[i].path_edges)
    /\ trail_edges = committed.edges

\* ====================================================================== *
\* Properties of GET /hikes                                                *
\* ====================================================================== *

SomeButNotAllSupplied == ~all_query_params_present(req) /\ ~all_query_params_missing(req)

\* C20: GET /hikes accepts a request with all three query parameters or
\* with none of them, and answers 400 only when some but not all of them
\* are supplied.
C20_BadRequestOnlyForPartialParameters ==
    (pc = "h_done" /\ response.status = 400) => SomeButNotAllSupplied

\* ====================================================================== *
\* Properties of the elevation service                                     *
\* ====================================================================== *

\* Two successive calls with the same coordinate list.
SameListTwice(i) ==
    /\ i \in 1..(Len(call_log) - 1)
    /\ call_log[i].coordinates = call_log[i + 1].coordinates

\* C21 as stated: two successive calls with the same coordinate list
\* return identical results, and after a call the cache is not empty,
\* whatever the lookups ended in.
C21_SameResultTwiceAndCacheFilled ==
    /\ \A i \in 1..(Len(call_log) - 1) :
          SameListTwice(i) => call_log[i + 1].result = call_log[i].result
    /\ call_log # <<>> => elevation_cache # <<>>

\* C21 amended: when the first of two successive calls with the same list
\* got a lookup response or a cache hit, the second is served from the
\* cache with the identical result; empty and refused lists give [] both
\* times; after a failed request nothing is stored and the second call
\* does the lookup again.  The cache is non-empty exactly when some call
\* got a lookup response.
C21_SameResultTwiceAfterALookupResponse ==
    /\ \A i \in 1..(Len(call_log) - 1) :
          SameListTwice(i) =>
              /\ call_log[i].branch \in {"lookup", "cache"} =>
                    /\ call_log[i + 1].branch = "cache"
                    /\ call_log[i + 1].result = call_log[i].result
              /\ call_log[i].branch \in {"empty", "invalid"} =>
                    /\ call_log[i + 1].branch = call_log[i].branch
                    /\ call_log[i + 1].result = <<>>
              /\ call_log[i].branch = "fallback" =>
                    call_log[i + 1].branch \in {"lookup", "fallback"}
    /\ elevation_cache # <<>> <=> \E i \in DOMAIN call_log : call_log[i].branch = "lookup"

\* C21 witness: a call that got elevations from the lookup was followed by
\* a call with the same list, served from the cache.
C21_Witness ==
    \E i \in 1..(Len(call_log) - 1) :
        /\ SameListTwice(i)
        /\ call_log[i].branch = "lookup"
        /\ call_log[i].result # <<>>
        /\ call_log[i + 1].branch = "cache"
        /\ elevation_cache # <<>>

\* C22 as stated: the list returned has exactly as many elevations as the
\* input has coordinates, from a lookup response and when the request fails.
C22_OneElevationPerCoordinate ==
    \A i \in DOMAIN call_log : Len(call_log[i].result) = Len(call_log[i].coordinates)

\* C22 amended: [] for an empty list and for a list the validator refuses;
\* one elevation per entry of the response's "results" from a lookup (as
\* many as coordinates when the service answers every location, none when
\* the response has no "results"); as many 0.0 as coordinates when the
\* request fails; from the cache, the list stored for the same coordinates.
C22_LengthFollowsBranch ==
    \A i \in DOMAIN call_log :
        LET c == call_log[i]
        IN  /\ c.branch \in {"empty", "invalid"} => c.result = <<>>
            /\ c.branch = "invalid" <=> ~ValidCoordinates(c.coordinates)
            /\ (c.branch = "lookup" /\ c.outcome = "results") =>
                  Len(c.result) = Len(c.coordinates)
            /\ (c.branch = "lookup" /\ c.outcome = "no_results") => c.result = <<>>
            /\ c.branch = "fallback" =>
                  /\ Len(c.result) = Len(c.coordinates)
                  /\ \A k \in DOMAIN c.result : c.result[k] = 0
            /\ c.branch = "cache" =>
                  \E j \in 1..(i - 1) :
                      /\ call_log[j].branch = "lookup"
                      /\ call_log[j].coordinates = c.coordinates
                      /\ call_log[j].result = c.result

\* C22 witness: calls returned two elevations from a lookup response and
\* two zeros from a failed request.
C22_Witness ==
    /\ \E i \in DOMAIN call_log :
          /\ call_log[i].branch = "lookup"
          /\ Len(call_log[i].result) = 2
    /\ \E i \in DOMAIN call_log :
          /\ call_log[i].branch = "fallback"
          /\ call_log[i].result = <<0, 0>>

\* C30: a result served from the cache was stored by a lookup made under
\* the same latitude/longitude order that is set at the time of the hit, so
\* it equals what a fresh lookup would request.
C30_CacheHitStoredUnderCurrentOrder ==
    \A j \in DOMAIN call_log :
        call_log[j].branch = "cache" =>
            /\ \E i \in 1..(j - 1) :
                  /\ call_log[i].branch = "lookup"
                  /\ call_log[i].coordinates = call_log[j].coordinates
                  /\ call_log[i].result = call_log[j].result
                  /\ call_log[i].latitude_first = call_log[j].latitude_first
            /\ call_log[j].result \in
                  { ElevationsOf(Locations(call_log[j].coordinates,
                                           call_log[j].latitude_first), o) :
                        o \in {"results", "no_results"} }

\* The path records of the simple paths from the start node of the request
\* that have at least one edge and cost at most max_distance.
ValidPaths ==
    {PathRecord(p) : p \in {q \in SimplePaths(CteBase(req.start_node_id)) :
                              /\ Len(q.path_edges) > 0
                              /\ q.total_cost <= req.max_distance}}

\* C23: without a result limit find_paths_from_node returns exactly the
\* simple paths from the start node with at least one edge and a total cost
\* of at most max_distance, prefixes included, each of them once.
C23_UnlimitedReturnsExactlyTheValidPaths ==
    (FindPathsReturned /\ req.max_paths = 0) =>
        /\ Range(rows) = ValidPaths
        /\ NoRepeat(rows)

\* C23 witness: an unlimited call returned a path of two edges together
\* with its one-edge prefix, while a longer simple path was over the budget.
C23_Witness ==
    /\ FindPathsReturned
    /\ req.max_paths = 0
    /\ \E i, j \in DOMAIN rows :
          /\ Len(rows[i].path_edges) = 2
          /\ rows[j].path_edges = SubSeq(rows[i].path_edges, 1, 1)
    /\ \E p \in SimplePaths(CteBase(req.start_node_id)) : p.total_cost > req.max_distance

\* C24: with a result limit find_paths_from_node returns at most max_paths
\* paths, in order of non-increasing total cost, all of them valid paths,
\* and no valid path left out costs strictly more than a returned one.
C24_LimitKeepsTheCostliest ==
    (FindPathsReturned /\ req.max_paths # 0) =>
        /\ Len(rows) <= req.max_paths
        /\ Len(rows) <= Cardinality(ValidPaths)
        /\ Len(rows) = req.max_paths \/ Len(rows) = Cardinality(ValidPaths)
        /\ Range(rows) \subseteq ValidPaths
        /\ NoRepeat(rows)
        /\ \A i \in 1..(Len(rows) - 1) : rows[i].total_cost >= rows[i + 1].total_cost
        /\ \A p \in ValidPaths \ Range(rows) :
              \A i \in DOMAIN rows : p.total_cost <= rows[i].total_cost

\* C24 witness: a limited call returned paths of different cost and left
\* out a valid path cheaper than all of them.
C24_Witness ==
    /\ FindPathsReturned
    /\ req.max_paths # 0
    /\ Len(rows) = req.max_paths
    /\ \E i \in DOMAIN rows : rows[i].total_cost > rows[Len(rows)].total_cost
    /\ \E p \in ValidPaths \ Range(rows) : p.total_cost < rows[Len(rows)].total_cost

\* ====================================================================== *
\* Properties of the target selection                                      *
\* ====================================================================== *

TargetsSelected == pc = "fo_paths" /\ req.op = "find_paths_from_node_optimized"

\* C25: the candidates fall into max(8, max_paths) angular bins, and the
\* selected targets hold exactly one node of every non-empty bin and none
\* of an empty one, that node being a candidate of the bin at the maximal
\* squared planar coordinate distance from the start node.
C25_OneFarthestTargetPerNonEmptyBin ==
    TargetsSelected =>
        LET start == NodeOf(req.start_node_id)
            cands == CandidateNodes(start, req.max_distance)
            num_bins == Max2(8, req.max_paths)
            bin_of(n) == BinIndex(start, n, num_bins)
            in_bin(b) == {n \in cands : bin_of(n) = b}
            picked(b) == {i \in DOMAIN selected_targets : bin_of(selected_targets[i]) = b}
        IN  /\ \A n \in cands : bin_of(n) \in 0..(num_bins - 1)
            /\ Range(selected_targets) \subseteq cands
            /\ \A b \in 0..(num_bins - 1) :
                  Cardinality(picked(b)) = IF in_bin(b) = {} THEN 0 ELSE 1
            /\ \A i \in DOMAIN selected_targets :
                  \A m \in in_bin(bin_of(selected_targets[i])) :
                      CoordDist2(start, m) <= CoordDist2(start, selected_targets[i])

\* C25 witness: targets were selected where one bin held candidates at
\* different distances and another bin held a candidate too.
C25_Witness ==
    /\ TargetsSelected
    /\ Len(selected_targets) >= 2
    /\ LET start == NodeOf(req.start_node_id)
           cands == CandidateNodes(start, req.max_distance)
           num_bins == Max2(8, req.max_paths)
       IN  \E n, m \in cands :
              /\ BinIndex(start, n, num_bins) = BinIndex(start, m, num_bins)
              /\ CoordDist2(start, n) < CoordDist2(start, m)

\* The stored row of an edge id (no row: edge_of is not applied).
EdgeOf(e) == CHOOSE te \in trail_edges : te.id = e

\* Edge i of the path joins nodes i and i+1 of its node sequence, and the
\* direction flag tells whether the edge's stored source is node i.
DirectionsOk(path) ==
    /\ Len(path.path_directions) = Len(path.path_edges)
    /\ Len(path.node_sequence) = Len(path.path_edges) + 1
    /\ \A i \in DOMAIN path.path_edges :
          /\ \E te \in trail_edges : te.id = path.path_edges[i]
          /\ {EdgeOf(path.path_edges[i]).source_node_id,
              EdgeOf(path.path_edges[i]).target_node_id}
                = {path.node_sequence[i], path.node_sequence[i + 1]}
          /\ path.path_directions[i] = TRUE <=>
                EdgeOf(path.path_edges[i]).source_node_id = path.node_sequence[i]
          /\ path.path_directions[i] = FALSE <=>
                /\ EdgeOf(path.path_edges[i]).target_node_id = path.node_sequence[i]
                /\ EdgeOf(path.path_edges[i]).source_node_id # path.node_sequence[i]

\* C26: in every path either strategy returns, edge path_edges[i] joins
\* node_sequence[i] and node_sequence[i+1], and path_directions[i] is true
\* exactly when the edge's stored source node is node_sequence[i].
C26_DirectionsFollowStoredOrientation ==
    /\ FindPathsReturned => \A i \in DOMAIN rows : DirectionsOk(rows[i])
    /\ (pc = "ft_search" /\ req.op = "find_trails") =>
          \A paths \in OptimizedResultsHere :
              \A i \in DOMAIN paths : DirectionsOk(paths[i])
    /\ (pc \in {"ft_build", "returned"} /\ req.op = "find_trails") =>
          \A i \in DOMAIN all_paths : DirectionsOk(all_paths[i])

\* C26 witness: the enumeration returned a path that follows one edge along
\* its stored orientation and another against it, and so does the
\* shortest-path strategy from the same start node.
C26_Witness ==
    /\ FindPathsReturned
    /\ \E i \in DOMAIN rows :
          /\ TRUE \in Range(rows[i].path_directions)
          /\ FALSE \in Range(rows[i].path_directions)
    /\ \E paths \in FindPathsFromNodeOptimized(req.start_node_id, req.max_distance,
                                                MaxPathsBound) :
          \E i \in DOMAIN paths :
              /\ DirectionsOk(paths[i])
              /\ TRUE \in Range(paths[i].path_directions)
              /\ FALSE \in Range(paths[i].path_directions)

\* ====================================================================== *
\* Further properties of the network builder                               *
\* ====================================================================== *

\* C27 as stated: after a build no two persisted edges join the same
\* unordered pair of nodes, whatever their stored orientation.
C27_OneEdgePerUnorderedPair ==
    pc = "b_done" =>
        \A e, f \in committed.edges :
            e # f => {e.source_node_id, e.target_node_id}
                        # {f.source_node_id, f.target_node_id}

\* C27 amended: after a build no two persisted edges have the same source
\* and the same target; an edge stored as (a, b) and another stored as
\* (b, a) are both kept.
C27_OneEdgePerOrderedPair ==
    pc = "b_done" =>
        \A e, f \in committed.edges :
            e # f => <<e.source_node_id, e.target_node_id>>
                        # <<f.source_node_id, f.target_node_id>>

\* C27 witness: a build ended with two edges between the same two nodes,
\* stored in opposite orientations.
C27_Witness ==
    /\ pc = "b_done"
    /\ \E e, f \in committed.edges :
          /\ e.source_node_id = f.target_node_id
          /\ e.target_node_id = f.source_node_id

\* ====================================================================== *
\* Termination and the connection                                          *
\* ====================================================================== *

\* C28: the exhaustive enumeration ends on every graph tried, rings and
\* zero-length edges included: every row of the working table uses no edge
\* and visits no node twice, each iteration lengthens the rows by one edge,
\* and a started enumeration leads to the return of its rows.
C28_EnumerationTerminates ==
    /\ [](pc = "fp_cte" =>
            \A r \in BagToSet(cte_work) :
                /\ NoRepeat(r.path_edges)
                /\ NoRepeat(r.node_sequence)
                /\ Len(r.node_sequence) <= Cardinality(trail_nodes))
    /\ [][FP_Iterate =>
            \A r \in BagToSet(cte_work') : \E o \in BagToSet(cte_work) :
                /\ Len(r.path_edges) = Len(o.path_edges) + 1
                /\ r.path_edges[Len(r.path_edges)] \notin Range(o.path_edges)
                /\ r.node_sequence[Len(r.node_sequence)] \notin Range(o.node_sequence)]_vars
    /\ (pc = "fp_cte") ~> (pc = "returned")

\* C28 witness: an enumeration with no limit returned from a ring of three
\* edges, one of them of length zero, with a path over the zero-length edge.
C28_Witness ==
    /\ FindPathsReturned
    /\ req.max_paths = 0
    /\ Cardinality(trail_edges) = NumNodes
    /\ \E e \in trail_edges : e.length_km = 0
    /\ \E i \in DOMAIN rows : Len(rows[i].path_edges) = 2 /\ rows[i].total_cost <= 10

\* Positions at which the next statement is a storage operation.
StoragePositions ==
    {"ft_locate", "ft_search", "ft_build",
     "b_count", "b_create_tables", "b_nodes", "b_edges", "b_indexes", "b_analyze"}

\* Positions at which a run has ended.
EndPositions == {"returned", "exited", "b_done", "b_failed"}

\* C29: in find_trails and build_network every storage operation runs on
\* the open connection, the connection is closed only by the finally clause
\* that ends the run, and once opened it is eventually closed, whether the
\* run returns, finds no start node, raises or exits.
C29_ConnectionClosedAtTheEndOfEveryRun ==
    /\ [](pc \in StoragePositions => connection = "open")
    /\ [][(connection = "open" /\ connection' # "open") =>
            /\ connection' = "closed"
            /\ pc \in {"ft_finally", "b_finally"}
            /\ pc' \in EndPositions]_vars
    /\ [](connection = "closed" => pc \in EndPositions)
    /\ (connection = "open") ~> (connection = "closed")

\* C29 witness: a build that raised after its nodes were committed ended
\* with the connection closed.
C29_Witness ==
    /\ pc = "b_failed"
    /\ error_log = "b_edges"
    /\ committed.nodes # {}
    /\ connection = "closed"

====
